---------------------------- MODULE Spec2Model ----------------------------
(***************************************************************************)
(* VITAR Sport Analytics dashboard (src/unnamed/part_000, src/plan.js)     *)
(* and its login (src/auth.js).                                            *)
(*                                                                         *)
(* The page keeps its record stores in memory, reads the filter criteria   *)
(* from seven <select> elements and re-renders every table in              *)
(* updateDisplay() on each change event.  The view buttons switch between  *)
(* the sales views and the overdue, stock and monthly summary views, each  *)
(* of which renders its own section.                                       *)
(*                                                                         *)
(* Representation                                                          *)
(*  - a JavaScript object is a TLA+ function; a field that is undefined    *)
(*    (or null) is a key that is not in its DOMAIN;                        *)
(*  - a string the code cuts or searches (date, channel, product name,     *)
(*    object keys of the top-10 reducers) is a sequence of one-character   *)
(*    strings, so that substring(), includes(), toUpperCase() and the      *)
(*    property order of an object are computed, not assumed;               *)
(*  - a string the code only compares with === is a TLA+ string;           *)
(*  - amounts are integers (whole currency units), for which the           *)
(*    additions of the code are exact;                                     *)
(*  - a call that may raise a TypeError returns [threw, value].            *)
(***************************************************************************)
EXTENDS Integers, Sequences, FiniteSets, TLC

VARIABLES
    ordersData,          \* data.js: the order store of the 'orders' view
    itemsData,           \* items.js: the line items of the 'orders' view
    invoicesData,        \* the invoice store of the 'invoices' view
    invoiceItemsData,    \* the line items of the 'invoices' view
    sponsoringData,      \* the invoice store of the 'sponsoring' view
    sponsoringItemsData, \* the line items of the 'sponsoring' view
    stockData,           \* the stock items of the 'stock' view
    currentView,         \* the view of the active view button
    selects,             \* id of a filter <select> -> its current value
    options,             \* id of a select filled by the code -> its option values
    style,               \* id of an element -> its inline style.display
    dom,                 \* id of a rendered element -> what was last written there
    activeTab,           \* the tab, and tab-content panel, of class 'active'
    activeViewBtn,       \* the data-view of the view button of class 'active'
    now,                 \* the clock read by new Date() and Date.now(), in ticks
    session,             \* auth.js: the item 'vitar_auth' of sessionStorage
    location,            \* auth.js: the page of window.location.href
    errorShown           \* auth.js: errorMessage has the class 'show'

stores ==
    <<ordersData, itemsData, invoicesData, invoiceItemsData, sponsoringData,
      sponsoringItemsData, stockData>>

\* the stores no handler sorts
unsortedStores ==
    <<ordersData, itemsData, invoicesData, invoiceItemsData, sponsoringData,
      sponsoringItemsData>>

\* the state of src/auth.js
authVars == <<session, location, errorShown>>

\* the state of the dashboard page
pageVars ==
    <<stores, currentView, selects, options, style, dom, activeTab, activeViewBtn>>

vars == <<pageVars, now, authVars>>

----------------------------------------------------------------------------
(* String literals, as character sequences.                                *)

ALL == <<"a","l","l">>
D_2025_03_15 == <<"2","0","2","5","-","0","3","-","1","5">>
D_2025_03_20 == <<"2","0","2","5","-","0","3","-","2","0">>
D_2025_04_01 == <<"2","0","2","5","-","0","4","-","0","1">>
D_2025_04_02 == <<"2","0","2","5","-","0","4","-","0","2">>
M_2025_03 == <<"2","0","2","5","-","0","3">>
M_2025_04 == <<"2","0","2","5","-","0","4">>
ESHOP_ENERVIT_CZ == <<"E","S","H","O","P","_","E","N","E","R","V","I","T","_","C","Z">>
ESHOP_ENERVIT_SK == <<"E","S","H","O","P","_","E","N","E","R","V","I","T","_","S","K">>
ESHOP_ROYALBAY_CZ == <<"E","S","H","O","P","_","R","O","Y","A","L","B","A","Y","_","C","Z">>
ESHOP_ROYALBAY_SK == <<"E","S","H","O","P","_","R","O","Y","A","L","B","A","Y","_","S","K">>
B2B == <<"B","2","B">>
OTHER_CHANNEL == <<"O","T","H","E","R">>
S_ENERVIT == <<"E","N","E","R","V","I","T">>
S_ROYALBAY == <<"R","O","Y","A","L","B","A","Y">>
S_ROYAL_BAY == <<"R","O","Y","A","L"," ","B","A","Y">>
S_GEL_PAREN == <<"G","E","L"," ","(">>
S_ML_PAREN == <<"M","L",")">>

----------------------------------------------------------------------------
(* JavaScript primitives.                                                  *)

Has(obj, f) == f \in DOMAIN obj

Without(obj, f) == [k \in DOMAIN obj \ {f} |-> obj[k]]

Min(a, b) == IF a < b THEN a ELSE b

\* String.prototype.substring(start, end) for 0 <= start <= end
substring(s, start, end) == SubSeq(s, start + 1, Min(end, Len(s)))

\* String.prototype.includes(sub)
includes(s, sub) ==
    \E i \in 1..(Len(s) - Len(sub) + 1) : SubSeq(s, i, i + Len(sub) - 1) = sub

\* Array.prototype.forEach with an accumulator: body(acc, element)
forEach(body(_, _), init, arr) ==
    LET f[i \in 0..Len(arr)] == IF i = 0 THEN init ELSE body(f[i - 1], arr[i])
    IN  f[Len(arr)]

----------------------------------------------------------------------------
(* VAT mode and price fields.                                              *)

\* vatFilter ? vatFilter.value : 'with_vat'
getVatMode(sel) ==
    IF "vatFilter" \in DOMAIN sel THEN sel["vatFilter"] ELSE "with_vat"

\* (item.<field> || 0): an undefined field, like the number 0, gives 0
FieldOrZero(item, f) == IF Has(item, f) THEN item[f] ELSE 0

\* a getPriceField that derives the amount without VAT from the amount with VAT
getPriceField_derived(item, currency, sel) ==
    IF currency = "EUR"
    THEN IF getVatMode(sel) = "without_vat"
         THEN (FieldOrZero(item, "total_eur") * 100) \div 121
         ELSE FieldOrZero(item, "total_eur")
    ELSE IF getVatMode(sel) = "without_vat"
         THEN (FieldOrZero(item, "total_czk") * 100) \div 121
         ELSE FieldOrZero(item, "total_czk")

getPriceField(item, currency, sel) ==
    IF currency = "EUR"
    THEN IF getVatMode(sel) = "without_vat"
         THEN FieldOrZero(item, "total_eur_bez_dph")
         ELSE FieldOrZero(item, "total_eur")
    ELSE IF getVatMode(sel) = "without_vat"
         THEN FieldOrZero(item, "total_czk_bez_dph")
         ELSE FieldOrZero(item, "total_czk")

----------------------------------------------------------------------------
(* Filter engine.  The callback of Array.prototype.filter either keeps or  *)
(* drops the element, or raises a TypeError when it reads .substring or    *)
(* .includes of an undefined field; the checks run in source order and     *)
(* stop at the first one that decides.                                     *)

\* order.currency === 'EUR'
IsEUR(order) == Has(order, "currency") /\ order["currency"] = "EUR"

\* the month, market, channel and salesperson checks shared by both filters
CommonVerdict(item, sel) ==
    IF sel["monthFilter"] # ALL /\ ~Has(item, "date") THEN "throw"
    ELSE IF sel["monthFilter"] # ALL
            /\ substring(item["date"], 0, 7) # sel["monthFilter"] THEN "drop"
    ELSE IF sel["marketFilter"] = "CZ" /\ IsEUR(item) THEN "drop"
    ELSE IF sel["marketFilter"] = "SK" /\ ~IsEUR(item) THEN "drop"
    ELSE IF sel["channelFilter"] = "ESHOP_ENERVIT" /\ ~Has(item, "channel")
         THEN "throw"
    ELSE IF sel["channelFilter"] = "ESHOP_ENERVIT"
            /\ ~includes(item["channel"], S_ENERVIT) THEN "drop"
    ELSE IF sel["channelFilter"] = "ESHOP_ROYALBAY" /\ ~Has(item, "channel")
         THEN "throw"
    ELSE IF sel["channelFilter"] = "ESHOP_ROYALBAY"
            /\ ~includes(item["channel"], S_ROYALBAY) THEN "drop"
    ELSE IF sel["channelFilter"] = "B2B"
            /\ ~(Has(item, "channel") /\ item["channel"] = B2B) THEN "drop"
    ELSE IF sel["salespersonFilter"] # "all"
            /\ ~(Has(item, "salesperson")
                 /\ item["salesperson"] = sel["salespersonFilter"]) THEN "drop"
    ELSE "keep"

\* mutant: the line items are filtered on payment type and city as well
ItemVerdict_payment(item, sel) ==
    IF CommonVerdict(item, sel) # "keep" THEN CommonVerdict(item, sel)
    ELSE IF sel["paymentFilter"] # "all"
            /\ ~(Has(item, "payment_type")
                 /\ item["payment_type"] = sel["paymentFilter"]) THEN "drop"
    ELSE IF sel["cityFilter"] # "all"
            /\ ~(Has(item, "city") /\ item["city"] = sel["cityFilter"])
         THEN "drop"
    ELSE "keep"

ItemVerdict(item, sel) == CommonVerdict(item, sel)

\* mutant: the city criterion is not applied
OrderVerdict_nocity(order, sel) ==
    IF CommonVerdict(order, sel) # "keep" THEN CommonVerdict(order, sel)
    ELSE IF sel["paymentFilter"] # "all"
            /\ ~(Has(order, "payment_type")
                 /\ order["payment_type"] = sel["paymentFilter"]) THEN "drop"
    ELSE "keep"

OrderVerdict(order, sel) ==
    IF CommonVerdict(order, sel) # "keep" THEN CommonVerdict(order, sel)
    ELSE IF sel["paymentFilter"] # "all"
            /\ ~(Has(order, "payment_type")
                 /\ order["payment_type"] = sel["paymentFilter"]) THEN "drop"
    ELSE IF sel["cityFilter"] # "all"
            /\ ~(Has(order, "city") /\ order["city"] = sel["cityFilter"])
         THEN "drop"
    ELSE "keep"

\* Array.prototype.filter with a callback that may throw
filter(arr, verdict(_)) ==
    IF \E i \in 1..Len(arr) : verdict(arr[i]) = "throw"
    THEN [threw |-> TRUE, value |-> << >>]
    ELSE [threw |-> FALSE,
          value |-> SelectSeq(arr, LAMBDA x : verdict(x) = "keep")]

getFilteredItems(sourceItems, sel) ==
    filter(sourceItems, LAMBDA item : ItemVerdict(item, sel))

\* mutant: the loop removes the rejected orders in place with splice(i, 1) and
\* so never looks at the order that follows a removed one
getFilteredOrders_splice(sourceData, sel) ==
    LET g[i \in 0..Len(sourceData)] ==
            IF i = 0 THEN [out |-> << >>, skip |-> FALSE]
            ELSE IF g[i - 1].skip
                 THEN [out |-> Append(g[i - 1].out, sourceData[i]), skip |-> FALSE]
            ELSE IF OrderVerdict(sourceData[i], sel) = "keep"
                 THEN [out |-> Append(g[i - 1].out, sourceData[i]), skip |-> FALSE]
            ELSE [out |-> g[i - 1].out, skip |-> TRUE]
    IN  [threw |-> FALSE, value |-> g[Len(sourceData)].out]

\* mutant: the newest order first
getFilteredOrders_reversed(sourceData, sel) ==
    LET r == filter(sourceData, LAMBDA order : OrderVerdict(order, sel))
    IN  [threw |-> r.threw,
         value |-> [i \in 1..Len(r.value) |-> r.value[Len(r.value) + 1 - i]]]

getFilteredOrders(sourceData, sel) ==
    filter(sourceData, LAMBDA order : OrderVerdict(order, sel))

----------------------------------------------------------------------------
(* Brand classification.                                                   *)

UpperPairs ==
    <<<<"a","A">>, <<"b","B">>, <<"c","C">>, <<"d","D">>, <<"e","E">>,
      <<"f","F">>, <<"g","G">>, <<"h","H">>, <<"i","I">>, <<"j","J">>,
      <<"k","K">>, <<"l","L">>, <<"m","M">>, <<"n","N">>, <<"o","O">>,
      <<"p","P">>, <<"q","Q">>, <<"r","R">>, <<"s","S">>, <<"t","T">>,
      <<"u","U">>, <<"v","V">>, <<"w","W">>, <<"x","X">>, <<"y","Y">>,
      <<"z","Z">>>>

\* String.prototype.toUpperCase, on the ASCII letters
toUpperCase(s) ==
    [i \in 1..Len(s) |->
        IF \E j \in 1..Len(UpperPairs) : UpperPairs[j][1] = s[i]
        THEN UpperPairs[CHOOSE j \in 1..Len(UpperPairs) : UpperPairs[j][1] = s[i]][2]
        ELSE s[i]]

EnervitKeywords ==
    {<<"E","N","E","R","V","I","T">>,
     <<"I","S","O","C","A","R","B">>,
     <<"C","A","R","B","O"," ","G","E","L">>,
     <<"C","A","R","B","O"," ","F","L","O","W">>,
     <<"C","A","R","B","O"," ","B","A","R">>,
     <<"C","A","R","B","O"," ","C","H","E","W","S">>,
     <<"C","A","R","B","O"," ","J","E","L","L","Y">>,
     <<"C","A","R","B","O"," ","T","A","B","L","E","T","S">>,
     <<"C","O","M","P","E","T","I","T","I","O","N"," ","B","A","R">>,
     <<"I","S","O","T","O","N","I","C">>,
     <<"R","E","C","O","V","E","R","Y"," ","D","R","I","N","K">>,
     <<"L","I","Q","U","I","D"," ","G","E","L">>,
     <<"P","R","E"," ","S","P","O","R","T">>,
     <<"A","F","T","E","R"," ","S","P","O","R","T">>,
     <<"P","R","O","T","E","I","N"," ","B","A","R">>,
     <<"C","2",":","1">>,
     <<"B","C","A","A">>,
     <<"C","R","E","A","T","I","N","A">>,
     <<"C","R","E","A","T","I","N","E">>,
     <<"M","A","G","N","E","S","I","U","M"," ","S","P","O","R","T">>,
     <<"G","E","L"," ","(","2","5">>}

\* mutant: the ROYALBAY keywords are looked for first
classifyBrand_royalFirst(item) ==
    IF ~Has(item, "product_name") \/ item["product_name"] = << >> THEN "VITAR"
    ELSE LET name == toUpperCase(item["product_name"]) IN
         IF includes(name, S_ROYAL_BAY) \/ includes(name, S_ROYALBAY)
         THEN "ROYALBAY"
         ELSE IF \/ \E kw \in EnervitKeywords : includes(name, kw)
                 \/ (includes(name, S_GEL_PAREN) /\ includes(name, S_ML_PAREN))
         THEN "ENERVIT"
         ELSE "VITAR"

\* classifyBrand(item.product_name); an undefined or empty name is falsy
classifyBrand(item) ==
    IF ~Has(item, "product_name") \/ item["product_name"] = << >> THEN "VITAR"
    ELSE LET name == toUpperCase(item["product_name"]) IN
         IF \/ \E kw \in EnervitKeywords : includes(name, kw)
            \/ (includes(name, S_GEL_PAREN) /\ includes(name, S_ML_PAREN))
         THEN "ENERVIT"
         ELSE IF includes(name, S_ROYAL_BAY) \/ includes(name, S_ROYALBAY)
         THEN "ROYALBAY"
         ELSE "VITAR"

----------------------------------------------------------------------------
(* Aggregator.  An accumulator is [threw, value]: order.date.substring     *)
(* raises a TypeError for a record without a date, which ends the loop.    *)

ChannelIs(order, c) == Has(order, "channel") /\ order["channel"] = c

calculateSummary(orders, sel) ==
    forEach(LAMBDA summary, order :
                IF IsEUR(order)
                THEN [summary EXCEPT
                        !.totalEUR = @ + getPriceField(order, "EUR", sel),
                        !.b2bEUR = IF ChannelIs(order, B2B)
                                   THEN @ + getPriceField(order, "EUR", sel)
                                   ELSE @]
                ELSE [summary EXCEPT
                        !.totalCZK = @ + getPriceField(order, "CZK", sel),
                        !.b2bCZK = IF ChannelIs(order, B2B)
                                   THEN @ + getPriceField(order, "CZK", sel)
                                   ELSE @],
            [totalCZK |-> 0, totalEUR |-> 0, totalOrders |-> Len(orders),
             b2bCZK |-> 0, b2bEUR |-> 0],
            orders)

EmptyChannelTotals ==
    [ESHOP_ENERVIT_CZ |-> [czk |-> 0, count |-> 0],
     ESHOP_ENERVIT_SK |-> [eur |-> 0, count |-> 0],
     ESHOP_ROYALBAY_CZ |-> [czk |-> 0, count |-> 0],
     ESHOP_ROYALBAY_SK |-> [eur |-> 0, count |-> 0],
     B2B_CZ |-> [czk |-> 0, count |-> 0],
     B2B_SK |-> [eur |-> 0, count |-> 0],
     totalCount |-> 0]

\* mutant: every B2B order goes to B2B_CZ, whatever its currency
AddToMonth_noSplit(months, order, sel) ==
    LET month == substring(order["date"], 0, 7)
        m0 == IF month \in DOMAIN months THEN months[month] ELSE EmptyChannelTotals
        m1 == [m0 EXCEPT !.totalCount = @ + 1]
        czkAmount == getPriceField(order, "CZK", sel)
        eurAmount == getPriceField(order, "EUR", sel)
        m2 == IF ChannelIs(order, ESHOP_ENERVIT_CZ)
              THEN [m1 EXCEPT !.ESHOP_ENERVIT_CZ =
                        [czk |-> @.czk + czkAmount, count |-> @.count + 1]]
              ELSE IF ChannelIs(order, ESHOP_ENERVIT_SK)
              THEN [m1 EXCEPT !.ESHOP_ENERVIT_SK =
                        [eur |-> @.eur + eurAmount, count |-> @.count + 1]]
              ELSE IF ChannelIs(order, ESHOP_ROYALBAY_CZ)
              THEN [m1 EXCEPT !.ESHOP_ROYALBAY_CZ =
                        [czk |-> @.czk + czkAmount, count |-> @.count + 1]]
              ELSE IF ChannelIs(order, ESHOP_ROYALBAY_SK)
              THEN [m1 EXCEPT !.ESHOP_ROYALBAY_SK =
                        [eur |-> @.eur + eurAmount, count |-> @.count + 1]]
              ELSE IF ChannelIs(order, B2B)
              THEN [m1 EXCEPT !.B2B_CZ =
                        [czk |-> @.czk + czkAmount, count |-> @.count + 1]]
              ELSE m1
    IN  (month :> m2) @@ months

\* the body of the forEach of aggregateByMonth, for an order with a date
AddToMonth(months, order, sel) ==
    LET month == substring(order["date"], 0, 7)
        m0 == IF month \in DOMAIN months THEN months[month] ELSE EmptyChannelTotals
        m1 == [m0 EXCEPT !.totalCount = @ + 1]
        czkAmount == getPriceField(order, "CZK", sel)
        eurAmount == getPriceField(order, "EUR", sel)
        m2 == IF ChannelIs(order, ESHOP_ENERVIT_CZ)
              THEN [m1 EXCEPT !.ESHOP_ENERVIT_CZ =
                        [czk |-> @.czk + czkAmount, count |-> @.count + 1]]
              ELSE IF ChannelIs(order, ESHOP_ENERVIT_SK)
              THEN [m1 EXCEPT !.ESHOP_ENERVIT_SK =
                        [eur |-> @.eur + eurAmount, count |-> @.count + 1]]
              ELSE IF ChannelIs(order, ESHOP_ROYALBAY_CZ)
              THEN [m1 EXCEPT !.ESHOP_ROYALBAY_CZ =
                        [czk |-> @.czk + czkAmount, count |-> @.count + 1]]
              ELSE IF ChannelIs(order, ESHOP_ROYALBAY_SK)
              THEN [m1 EXCEPT !.ESHOP_ROYALBAY_SK =
                        [eur |-> @.eur + eurAmount, count |-> @.count + 1]]
              ELSE IF ChannelIs(order, B2B)
              THEN IF IsEUR(order)
                   THEN [m1 EXCEPT !.B2B_SK =
                        [eur |-> @.eur + eurAmount, count |-> @.count + 1]]
                   ELSE [m1 EXCEPT !.B2B_CZ =
                        [czk |-> @.czk + czkAmount, count |-> @.count + 1]]
              ELSE m1
    IN  (month :> m2) @@ months

aggregateByMonth(orders, sel) ==
    forEach(LAMBDA acc, order :
                IF acc.threw THEN acc
                ELSE IF ~Has(order, "date") THEN [threw |-> TRUE, value |-> << >>]
                ELSE [threw |-> FALSE, value |-> AddToMonth(acc.value, order, sel)],
            [threw |-> FALSE, value |-> << >>],
            orders)

EmptyBrandTotals == [ENERVIT |-> 0, ROYALBAY |-> 0, VITAR |-> 0, total |-> 0]

\* mutant: only the amount in the item's own currency is taken
BrandAmount_byCurrency(item, sel) ==
    IF IsEUR(item) THEN getPriceField(item, "EUR", sel) * 25
    ELSE getPriceField(item, "CZK", sel)

\* const amount = czkAmount + (eurAmount * 25)
BrandAmount(item, sel) ==
    getPriceField(item, "CZK", sel) + (getPriceField(item, "EUR", sel) * 25)

\* the body of the forEach of aggregateByBrand, for an item with a date
AddToBrand(months, item, sel) ==
    LET month == substring(item["date"], 0, 7)
        m0 == IF month \in DOMAIN months THEN months[month] ELSE EmptyBrandTotals
        brand == classifyBrand(item)
        amount == BrandAmount(item, sel)
        m1 == [m0 EXCEPT ![brand] = @ + amount]
    IN  (month :> [m1 EXCEPT !.total = @ + amount]) @@ months

aggregateByBrand(items, sel) ==
    forEach(LAMBDA acc, item :
                IF acc.threw THEN acc
                ELSE IF ~Has(item, "date") THEN [threw |-> TRUE, value |-> << >>]
                ELSE [threw |-> FALSE, value |-> AddToBrand(acc.value, item, sel)],
            [threw |-> FALSE, value |-> << >>],
            items)

EmptySalespersonTotals ==
    [k \in {"Karolina", "Jirka", "Stepan", "VITAR Sport", "total"} |-> 0]

\* mutant: the currency of a B2B order is not looked at
IsB2BCZ_anyCurrency(o) == ChannelIs(o, B2B)

\* o.channel === 'B2B' && o.currency !== 'EUR'
IsB2BCZ(o) == ChannelIs(o, B2B) /\ ~IsEUR(o)

\* order.salesperson || 'VITAR Sport'
SalespersonOf(order) ==
    IF Has(order, "salesperson") /\ order["salesperson"] # ""
    THEN order["salesperson"] ELSE "VITAR Sport"

\* the body of the forEach of aggregateB2BBySalesperson
AddToSalesperson(months, order, sel) ==
    LET month == substring(order["date"], 0, 7)
        m0 == IF month \in DOMAIN months THEN months[month]
              ELSE EmptySalespersonTotals
        sp == SalespersonOf(order)
        czkAmount == getPriceField(order, "CZK", sel)
        m1 == (sp :> ((IF sp \in DOMAIN m0 THEN m0[sp] ELSE 0) + czkAmount)) @@ m0
    IN  (month :> [m1 EXCEPT !["total"] = @ + czkAmount]) @@ months

aggregateB2BBySalesperson(orders, sel) ==
    forEach(LAMBDA acc, order :
                IF acc.threw THEN acc
                ELSE IF ~Has(order, "date") THEN [threw |-> TRUE, value |-> << >>]
                ELSE [threw |-> FALSE,
                      value |-> AddToSalesperson(acc.value, order, sel)],
            [threw |-> FALSE, value |-> << >>],
            SelectSeq(orders, IsB2BCZ))

----------------------------------------------------------------------------
(* Top-10 reducers.  `customers` and `products` are plain objects: their   *)
(* keys are enumerated by OrdinaryOwnPropertyKeys, the array-index keys    *)
(* first in ascending numeric order and then the other keys in the order   *)
(* in which they were created.  An object is [created, val].               *)

Digits == <<"0","1","2","3","4","5","6","7","8","9">>

IsDigit(c) == \E d \in 1..10 : Digits[d] = c

DigitValue(c) == (CHOOSE d \in 1..10 : Digits[d] = c) - 1

\* a < b, for canonical numeric strings (no leading zero)
NumericLess(a, b) ==
    \/ Len(a) < Len(b)
    \/ /\ Len(a) = Len(b)
       /\ \E i \in 1..Len(a) :
            /\ \A j \in 1..(i - 1) : a[j] = b[j]
            /\ DigitValue(a[i]) < DigitValue(b[i])

\* 2^32 - 2, the largest array index
MaxArrayIndex == <<"4","2","9","4","9","6","7","2","9","4">>

\* a canonical numeric string of an integer in 0 .. 2^32 - 2
IsArrayIndex(key) ==
    /\ Len(key) >= 1
    /\ \A i \in 1..Len(key) : IsDigit(key[i])
    /\ (Len(key) > 1 => key[1] # "0")
    /\ ~NumericLess(MaxArrayIndex, key)

RECURSIVE AscendingIndexKeys(_)
AscendingIndexKeys(S) ==
    IF S = {} THEN << >>
    ELSE LET k == CHOOSE x \in S : \A y \in S : ~NumericLess(y, x)
         IN  <<k>> \o AscendingIndexKeys(S \ {k})

EmptyObject == [created |-> << >>, val |-> << >>]

HasKey(obj, key) == key \in DOMAIN obj.val

\* obj[key] = v
PutKey(obj, key, v) ==
    [created |-> IF HasKey(obj, key) THEN obj.created
                 ELSE Append(obj.created, key),
     val |-> (key :> v) @@ obj.val]

\* Object.keys(obj)
ObjectKeys(obj) ==
    AscendingIndexKeys({k \in DOMAIN obj.val : IsArrayIndex(k)})
        \o SelectSeq(obj.created, LAMBDA k : ~IsArrayIndex(k))

\* Object.values(obj)
ObjectValues(obj) ==
    [i \in 1..Len(ObjectKeys(obj)) |-> obj.val[ObjectKeys(obj)[i]]]

RemoveAt(s, i) == SubSeq(s, 1, i - 1) \o SubSeq(s, i + 1, Len(s))

\* Array.prototype.sort((a, b) => b.total - a.total): a stable sort
RECURSIVE SortByTotalDesc(_)
SortByTotalDesc(s) ==
    IF s = << >> THEN << >>
    ELSE LET i == CHOOSE i \in 1..Len(s) :
                    /\ \A j \in 1..Len(s) : s[j].total <= s[i].total
                    /\ \A j \in 1..(i - 1) : s[j].total < s[i].total
         IN  <<s[i]>> \o SortByTotalDesc(RemoveAt(s, i))

\* .slice(0, 10)
TopN == 10

SliceTop(s) == SubSeq(s, 1, Min(TopN, Len(s)))

NEZNAMY == <<"N","e","z","n","a","m","y">>

\* order.company || 'Neznamy'
CompanyOf(order) ==
    IF Has(order, "company") /\ order["company"] # << >>
    THEN order["company"] ELSE NEZNAMY

\* the object `customers` of updateTop10CustomersTable
CustomersObject(orders, sel) ==
    forEach(LAMBDA customers, order :
                LET company == CompanyOf(order)
                    c0 == IF HasKey(customers, company)
                          THEN customers.val[company]
                          ELSE [name |-> company, count |-> 0, total |-> 0]
                IN  PutKey(customers, company,
                           [c0 EXCEPT !.count = @ + 1,
                                      !.total = @ + getPriceField(order, "CZK", sel)]),
            EmptyObject,
            orders)

\* the rows of updateTop10CustomersTable
Top10Customers(orders, sel) ==
    SliceTop(SortByTotalDesc(ObjectValues(CustomersObject(orders, sel))))

UNDEFINED == <<"u","n","d","e","f","i","n","e","d">>

\* item.product_code || item.product_name, as a property key
ProductKey(item) ==
    IF Has(item, "product_code") /\ item["product_code"] # << >>
    THEN item["product_code"]
    ELSE IF Has(item, "product_name") THEN item["product_name"]
    ELSE UNDEFINED

\* { code: item.product_code, name: item.product_name, quantity: 0, total: 0 }
NewProduct(item) ==
    (IF Has(item, "product_code") THEN "code" :> item["product_code"] ELSE << >>)
    @@ (IF Has(item, "product_name") THEN "name" :> item["product_name"] ELSE << >>)
    @@ [quantity |-> 0, total |-> 0]

\* the object `products` of updateTop10ProductsTable
ProductsObject(items, sel) ==
    forEach(LAMBDA products, item :
                LET key == ProductKey(item)
                    p0 == IF HasKey(products, key) THEN products.val[key]
                          ELSE NewProduct(item)
                IN  PutKey(products, key,
                           [p0 EXCEPT !.quantity = @ + item["quantity"],
                                      !.total = @ + getPriceField(item, "CZK", sel)]),
            EmptyObject,
            items)

\* the rows of updateTop10ProductsTable
Top10Products(items, sel) ==
    SliceTop(SortByTotalDesc(ObjectValues(ProductsObject(items, sel))))

----------------------------------------------------------------------------
(* The plan table.                                                         *)

M_2025_01 == <<"2","0","2","5","-","0","1">>
M_2025_02 == <<"2","0","2","5","-","0","2">>
M_2025_05 == <<"2","0","2","5","-","0","5">>
M_2025_06 == <<"2","0","2","5","-","0","6">>
M_2025_07 == <<"2","0","2","5","-","0","7">>
M_2025_08 == <<"2","0","2","5","-","0","8">>
M_2025_09 == <<"2","0","2","5","-","0","9">>
M_2025_10 == <<"2","0","2","5","-","1","0">>
M_2025_11 == <<"2","0","2","5","-","1","1">>
M_2025_12 == <<"2","0","2","5","-","1","2">>

\* src/plan.js
planData ==
    M_2025_01 :> [celkomCZ |-> 1405070, celkomSK |-> 8177, karolina |-> 650319,
                  jirkaCZ |-> 375651, jirkaSK |-> 0, stepanCZ |-> 68541,
                  stepanSK |-> 0] @@
    M_2025_02 :> [celkomCZ |-> 1446950, celkomSK |-> 9195, karolina |-> 750586,
                  jirkaCZ |-> 179301, jirkaSK |-> 0, stepanCZ |-> 66737,
                  stepanSK |-> 0] @@
    M_2025_03 :> [celkomCZ |-> 2167710, celkomSK |-> 11659, karolina |-> 980483,
                  jirkaCZ |-> 388545, jirkaSK |-> 0, stepanCZ |-> 65797,
                  stepanSK |-> 0] @@
    M_2025_04 :> [celkomCZ |-> 2785390, celkomSK |-> 16358, karolina |-> 1385623,
                  jirkaCZ |-> 306173, jirkaSK |-> 0, stepanCZ |-> 103550,
                  stepanSK |-> 0] @@
    M_2025_05 :> [celkomCZ |-> 3028260, celkomSK |-> 17328, karolina |-> 1526069,
                  jirkaCZ |-> 294787, jirkaSK |-> 0, stepanCZ |-> 98682,
                  stepanSK |-> 0] @@
    M_2025_06 :> [celkomCZ |-> 2571500, celkomSK |-> 9444, karolina |-> 1368469,
                  jirkaCZ |-> 308329, jirkaSK |-> 0, stepanCZ |-> 127686,
                  stepanSK |-> 0] @@
    M_2025_07 :> [celkomCZ |-> 2524270, celkomSK |-> 15644, karolina |-> 998665,
                  jirkaCZ |-> 521693, jirkaSK |-> 0, stepanCZ |-> 54311,
                  stepanSK |-> 0] @@
    M_2025_08 :> [celkomCZ |-> 2510780, celkomSK |-> 9854, karolina |-> 1305416,
                  jirkaCZ |-> 357990, jirkaSK |-> 0, stepanCZ |-> 73162,
                  stepanSK |-> 0] @@
    M_2025_09 :> [celkomCZ |-> 1801010, celkomSK |-> 13533, karolina |-> 782762,
                  jirkaCZ |-> 284558, jirkaSK |-> 0, stepanCZ |-> 45257,
                  stepanSK |-> 0] @@
    M_2025_10 :> [celkomCZ |-> 1481370, celkomSK |-> 8253, karolina |-> 520494,
                  jirkaCZ |-> 186634, jirkaSK |-> 0, stepanCZ |-> 15713,
                  stepanSK |-> 0] @@
    M_2025_11 :> [celkomCZ |-> 1110500, celkomSK |-> 9079, karolina |-> 395608,
                  jirkaCZ |-> 196656, jirkaSK |-> 0, stepanCZ |-> 20374,
                  stepanSK |-> 0] @@
    M_2025_12 :> [celkomCZ |-> 869609, celkomSK |-> 8140, karolina |-> 352605,
                  jirkaCZ |-> 217746, jirkaSK |-> 0, stepanCZ |-> 54738,
                  stepanSK |-> 0]

PlanMonths == DOMAIN planData

\* Object.keys(planData).sort()
sortedPlanMonths ==
    <<M_2025_01, M_2025_02, M_2025_03, M_2025_04, M_2025_05, M_2025_06,
      M_2025_07, M_2025_08, M_2025_09, M_2025_10, M_2025_11, M_2025_12>>

RECURSIVE SumFn(_, _)
\* the sum of f[x] over the x of S
SumFn(f, S) ==
    IF S = {} THEN 0
    ELSE LET x == CHOOSE y \in S : TRUE IN f[x] + SumFn(f, S \ {x})

calculatePlanTotals(monthFilter) ==
    IF monthFilter = ALL
    THEN [planCZK |-> SumFn([m \in PlanMonths |-> planData[m].celkomCZ], PlanMonths),
          planEUR |-> SumFn([m \in PlanMonths |-> planData[m].celkomSK], PlanMonths)]
    ELSE IF monthFilter \in PlanMonths
    THEN [planCZK |-> planData[monthFilter].celkomCZ,
          planEUR |-> planData[monthFilter].celkomSK]
    ELSE [planCZK |-> 0, planEUR |-> 0]

----------------------------------------------------------------------------
(* Plan comparison.  A percentage is the exact fraction num / den with     *)
(* den > 0; the code compares it with whole numbers only, and for a whole  *)
(* number k, num / den >= k exactly when the floor of num / den is >= k.   *)

\* mutant: the fraction is not turned into a percentage
Percent_fraction(actual, plan) ==
    IF plan > 0 THEN [num |-> actual, den |-> plan]
    ELSE [num |-> 0, den |-> 1]

\* plan > 0 ? (actual / plan) * 100 : 0
Percent(actual, plan) ==
    IF plan > 0 THEN [num |-> actual * 100, den |-> plan]
    ELSE [num |-> 0, den |-> 1]

\* percent >= k, for a whole number k
AtLeast(percent, k) == percent.num \div percent.den >= k

\* mutant: the tiers start above 90 and above 70
getProgressClass_strict(percent) ==
    LET whole == percent.num \div percent.den
        rest == percent.num % percent.den
    IN  IF whole > 90 \/ (whole = 90 /\ rest # 0) THEN "good"
        ELSE IF whole > 70 \/ (whole = 70 /\ rest # 0) THEN "warning"
        ELSE "bad"

getProgressClass(percent) ==
    IF AtLeast(percent, 90) THEN "good"
    ELSE IF AtLeast(percent, 70) THEN "warning"
    ELSE "bad"

getDiffClass(diff) ==
    IF diff > 0 THEN "positive"
    ELSE IF diff < 0 THEN "negative"
    ELSE "neutral"

\* one month of updatePlanCZTable and updatePlanSKTable
PlanRow(plan, actual) ==
    [plan |-> plan, actual |-> actual, diff |-> actual - plan,
     percent |-> Percent(actual, plan),
     progressClass |-> getProgressClass(Percent(actual, plan)),
     diffClass |-> getDiffClass(actual - plan)]

----------------------------------------------------------------------------
(* Rendering.  A table is kept as the data its rows show.                  *)

\* updateSummaryCards
SummaryCards(orders, sel) ==
    LET summary == calculateSummary(orders, sel)
        plan == calculatePlanTotals(sel["monthFilter"])
        percentCZK == Percent(summary.totalCZK, plan.planCZK)
        percentEUR == Percent(summary.totalEUR, plan.planEUR)
    IN  [summary |-> summary, plan |-> plan,
         percentCZK |-> percentCZK, percentEUR |-> percentEUR,
         progressClassCZK |-> getProgressClass(percentCZK),
         progressClassEUR |-> getProgressClass(percentEUR)]

\* updateCZTable, from the result of aggregateByMonth
CZTable(monthlyData) ==
    LET row(m) == [enervit |-> monthlyData[m].ESHOP_ENERVIT_CZ.czk,
                   royalbay |-> monthlyData[m].ESHOP_ROYALBAY_CZ.czk,
                   b2b |-> monthlyData[m].B2B_CZ.czk,
                   total |-> monthlyData[m].ESHOP_ENERVIT_CZ.czk
                             + monthlyData[m].ESHOP_ROYALBAY_CZ.czk
                             + monthlyData[m].B2B_CZ.czk]
        ms == DOMAIN monthlyData
    IN  [rows |-> [m \in ms |-> row(m)],
         totalEnervit |-> SumFn([m \in ms |-> row(m).enervit], ms),
         totalRoyalbay |-> SumFn([m \in ms |-> row(m).royalbay], ms),
         totalB2B |-> SumFn([m \in ms |-> row(m).b2b], ms)]

\* updateSKTable, from the result of aggregateByMonth
SKTable(monthlyData) ==
    LET row(m) == [enervit |-> monthlyData[m].ESHOP_ENERVIT_SK.eur,
                   royalbay |-> monthlyData[m].ESHOP_ROYALBAY_SK.eur,
                   b2b |-> monthlyData[m].B2B_SK.eur,
                   total |-> monthlyData[m].ESHOP_ENERVIT_SK.eur
                             + monthlyData[m].ESHOP_ROYALBAY_SK.eur
                             + monthlyData[m].B2B_SK.eur]
        ms == DOMAIN monthlyData
    IN  [rows |-> [m \in ms |-> row(m)],
         totalEnervit |-> SumFn([m \in ms |-> row(m).enervit], ms),
         totalRoyalbay |-> SumFn([m \in ms |-> row(m).royalbay], ms),
         totalB2B |-> SumFn([m \in ms |-> row(m).b2b], ms)]

\* data.<key> || 0
KeyOrZero(data, key) == IF key \in DOMAIN data THEN data[key] ELSE 0

\* updateB2BTable, from the result of aggregateB2BBySalesperson: the four
\* roster columns and the total column
B2BTable(b2bData) ==
    LET ms == DOMAIN b2bData
        cols == {"Karolina", "Jirka", "Stepan", "VITAR Sport", "total"}
    IN  [rows |-> [m \in ms |-> [c \in cols |-> KeyOrZero(b2bData[m], c)]],
         totals |-> [c \in cols |->
                        SumFn([m \in ms |-> KeyOrZero(b2bData[m], c)], ms)]]

\* updateBrandTable, from the result of aggregateByBrand
BrandTable(brandData) ==
    LET ms == DOMAIN brandData
        cols == {"ENERVIT", "ROYALBAY", "VITAR", "total"}
    IN  [rows |-> brandData,
         totals |-> [c \in cols |-> SumFn([m \in ms |-> brandData[m][c]], ms)]]

\* orders.slice(0, 500)
OrdersTableLimit == 500

limitedOrders(orders) == SubSeq(orders, 1, Min(OrdersTableLimit, Len(orders)))

\* the running total of one column of a plan table
PlanTotal(f) ==
    LET g[i \in 0..Len(sortedPlanMonths)] ==
            IF i = 0 THEN 0 ELSE g[i - 1] + f[sortedPlanMonths[i]]
    IN  g[Len(sortedPlanMonths)]

\* mutant: the percentage of the totals row is the sum of the monthly ones,
\* taken as whole percents
PlanTotals_sumOfPercents(rows) ==
    LET totalPlan == PlanTotal([m \in PlanMonths |-> rows[m].plan])
        totalActual == PlanTotal([m \in PlanMonths |-> rows[m].actual])
        totalPercent ==
            [num |-> PlanTotal([m \in PlanMonths |->
                                  rows[m].percent.num \div rows[m].percent.den]),
             den |-> 1]
    IN  [totalPlan |-> totalPlan, totalActual |-> totalActual,
         totalPercent |-> totalPercent,
         totalDiff |-> totalActual - totalPlan,
         totalProgressClass |-> getProgressClass(totalPercent),
         totalDiffClass |-> getDiffClass(totalActual - totalPlan)]

\* the totals row of updatePlanCZTable and updatePlanSKTable
PlanTotals(rows) ==
    LET totalPlan == PlanTotal([m \in PlanMonths |-> rows[m].plan])
        totalActual == PlanTotal([m \in PlanMonths |-> rows[m].actual])
        totalPercent == Percent(totalActual, totalPlan)
    IN  [totalPlan |-> totalPlan, totalActual |-> totalActual,
         totalPercent |-> totalPercent,
         totalDiff |-> totalActual - totalPlan,
         totalProgressClass |-> getProgressClass(totalPercent),
         totalDiffClass |-> getDiffClass(totalActual - totalPlan)]

\* updatePlanCZTable, from aggregateByMonth of the whole store
PlanCZTable(monthlyData) ==
    LET rows == [m \in PlanMonths |->
                    PlanRow(planData[m].celkomCZ,
                            IF m \in DOMAIN monthlyData
                            THEN monthlyData[m].ESHOP_ENERVIT_CZ.czk
                                 + monthlyData[m].ESHOP_ROYALBAY_CZ.czk
                                 + monthlyData[m].B2B_CZ.czk
                            ELSE 0)]
    IN  [rows |-> rows, totals |-> PlanTotals(rows)]

\* updatePlanSKTable, from aggregateByMonth of the whole store
PlanSKTable(monthlyData) ==
    LET rows == [m \in PlanMonths |->
                    PlanRow(planData[m].celkomSK,
                            IF m \in DOMAIN monthlyData
                            THEN monthlyData[m].ESHOP_ENERVIT_SK.eur
                                 + monthlyData[m].ESHOP_ROYALBAY_SK.eur
                                 + monthlyData[m].B2B_SK.eur
                            ELSE 0)]
    IN  [rows |-> rows, totals |-> PlanTotals(rows)]

\* the three columns of a salesperson in updatePlanB2BTable
B2BCell(plan, actual) ==
    [plan |-> plan, actual |-> actual, percent |-> Percent(actual, plan),
     diffClass |-> getDiffClass(actual - plan)]

SalespersonColumns == {"karolina", "jirka", "stepan"}

\* updatePlanB2BTable, from aggregateB2BBySalesperson of the whole store
PlanB2BTable(b2bData) ==
    LET rows == [m \in PlanMonths |->
                    LET actual == IF m \in DOMAIN b2bData THEN b2bData[m]
                                  ELSE << >>
                    IN  [karolina |-> B2BCell(planData[m].karolina,
                                              KeyOrZero(actual, "Karolina")),
                         jirka |-> B2BCell(planData[m].jirkaCZ,
                                           KeyOrZero(actual, "Jirka")),
                         stepan |-> B2BCell(planData[m].stepanCZ,
                                            KeyOrZero(actual, "Stepan"))]]
    IN  [rows |-> rows,
         totals |-> [c \in SalespersonColumns |->
                        B2BCell(PlanTotal([m \in PlanMonths |-> rows[m][c].plan]),
                                PlanTotal([m \in PlanMonths |-> rows[m][c].actual]))]]

----------------------------------------------------------------------------
(* Stock view.  days_remaining is a whole number of days, -1 for an item   *)
(* without sales.                                                          *)

\* mutant: 30 days are still critical
getStockStatus_late(daysRemaining) ==
    IF daysRemaining = -1 THEN "no_sales"
    ELSE IF daysRemaining <= 30 THEN "critical"
    ELSE IF daysRemaining < 60 THEN "low"
    ELSE IF daysRemaining <= 120 THEN "ok"
    ELSE "high"

getStockStatus(daysRemaining) ==
    IF daysRemaining = -1 THEN "no_sales"
    ELSE IF daysRemaining < 30 THEN "critical"
    ELSE IF daysRemaining < 60 THEN "low"
    ELSE IF daysRemaining <= 120 THEN "ok"
    ELSE "high"

\* the labels are written here without their diacritics
getStockStatusText(daysRemaining) ==
    IF daysRemaining = -1 THEN "Bez predaja"
    ELSE IF daysRemaining < 30 THEN "Kriticke"
    ELSE IF daysRemaining < 60 THEN "Nizke"
    ELSE IF daysRemaining <= 120 THEN "OK"
    ELSE "Vysoke"

\* stockData.filter(item => item.count > 0)
InStock(stock) == SelectSeq(stock, LAMBDA item : item.count > 0)

\* the comparator of getFilteredStock is negative: a goes before b
StockBefore(a, b) ==
    IF a.days_remaining = -1 /\ b.days_remaining # -1 THEN FALSE
    ELSE IF b.days_remaining = -1 /\ a.days_remaining # -1 THEN TRUE
    ELSE a.days_remaining - b.days_remaining < 0

\* Array.prototype.sort with that comparator: a stable sort
RECURSIVE SortStock(_)
SortStock(s) ==
    IF s = << >> THEN << >>
    ELSE LET i == CHOOSE i \in 1..Len(s) :
                    /\ \A j \in 1..Len(s) : ~StockBefore(s[j], s[i])
                    /\ \A j \in 1..(i - 1) : StockBefore(s[i], s[j])
         IN  <<s[i]>> \o SortStock(RemoveAt(s, i))

\* a filter() that returned the array it was called on
filterResult_receiver(elems) == [elems |-> elems, isReceiver |-> TRUE]

\* Array.prototype.filter returns a new array object, which shares nothing with
\* the array it was called on
filterResult(elems) == [elems |-> elems, isReceiver |-> FALSE]

\* what stockData holds after getFilteredStock: filtered.sort() sorts in place
\* the array that the last filter() returned
stockDataAfterSort(stock, sel) ==
    LET withStock == filterResult(InStock(stock))
        ofBrand == IF sel["stockBrandFilter"] # "all"
                   THEN filterResult(withStock.elems)
                   ELSE withStock
        filtered == IF sel["stockStatusFilter"] # "all"
                    THEN filterResult(ofBrand.elems)
                    ELSE ofBrand
    IN  IF filtered.isReceiver THEN SortStock(filtered.elems) ELSE stock

getFilteredStock(stock, sel) ==
    LET brandFilter == sel["stockBrandFilter"]
        statusFilter == sel["stockStatusFilter"]
        withStock == InStock(stock)
        ofBrand == IF brandFilter # "all"
                   THEN SelectSeq(withStock, LAMBDA item : item.brand = brandFilter)
                   ELSE withStock
        ofStatus == IF statusFilter # "all"
                    THEN SelectSeq(ofBrand, LAMBDA item :
                             getStockStatus(item.days_remaining) = statusFilter)
                    ELSE ofBrand
    IN  SortStock(ofStatus)

StockStatuses == {"critical", "low", "ok", "high", "no_sales"}

\* updateStockSummary: the count of each card
StockSummary(stock) ==
    [st \in StockStatuses |->
        Cardinality({i \in 1..Len(stock) :
                        /\ stock[i].count > 0
                        /\ getStockStatus(stock[i].days_remaining) = st})]

\* one row of updateStockTable
StockRow(item) ==
    LET status == getStockStatus(item.days_remaining)
    IN  [code |-> item.code, brand |-> item.brand, count |-> item.count,
         days_remaining |-> item.days_remaining,
         showsDash |-> item.days_remaining = -1,
         status |-> status,
         statusText |-> getStockStatusText(item.days_remaining),
         rowClass |-> IF status = "critical" THEN "stock-row-critical"
                      ELSE IF status = "low" THEN "stock-row-low"
                      ELSE ""]

StockTable(items) == [i \in 1..Len(items) |-> StockRow(items[i])]

\* the text of #stockCount: shown and total
StockCount(items, stock) == [shown |-> Len(items), of |-> Len(InStock(stock))]

----------------------------------------------------------------------------
(* Overdue view.  The clock counts ticks of 1 / TicksPerDay of a day since *)
(* 1970-01-01T00:00Z; new Date('YYYY-MM-DD') is midnight UTC of that day,  *)
(* a string that is not a date gives an Invalid Date, whose difference     *)
(* with today is NaN.                                                      *)

\* the number of tabs of the page
MaxTabs == 2

TicksPerDay == 24

\* the value of a sequence of decimal digits
Decimal(s) ==
    LET v[i \in 0..Len(s)] == IF i = 0 THEN 0 ELSE v[i - 1] * 10 + DigitValue(s[i])
    IN  v[Len(s)]

DaysInMonth(y, m) ==
    IF m = 2
    THEN IF y % 4 = 0 /\ (y % 100 # 0 \/ y % 400 = 0) THEN 29 ELSE 28
    ELSE IF m \in {4, 6, 9, 11} THEN 30 ELSE 31

\* the date-only form YYYY-MM-DD of a calendar day
IsDateString(s) ==
    /\ Len(s) = 10
    /\ s[5] = "-" /\ s[8] = "-"
    /\ \A i \in {1, 2, 3, 4, 6, 7, 9, 10} : IsDigit(s[i])
    /\ Decimal(SubSeq(s, 6, 7)) \in 1..12
    /\ Decimal(SubSeq(s, 9, 10)) \in
           1..DaysInMonth(Decimal(SubSeq(s, 1, 4)), Decimal(SubSeq(s, 6, 7)))

\* days from 1970-01-01 to the day y-m-d of the Gregorian calendar
DaysFromCivil(y, m, d) ==
    LET yy == IF m <= 2 THEN y - 1 ELSE y
        era == yy \div 400
        yoe == yy - era * 400
        mp == IF m > 2 THEN m - 3 ELSE m + 9
        doy == (153 * mp + 2) \div 5 + d - 1
        doe == yoe * 365 + yoe \div 4 - yoe \div 100 + doy
    IN  era * 146097 + doe - 719468

\* new Date(s).getTime(), in ticks, for a date string
DateTicks(s) ==
    DaysFromCivil(Decimal(SubSeq(s, 1, 4)), Decimal(SubSeq(s, 6, 7)),
                  Decimal(SubSeq(s, 9, 10))) * TicksPerDay

\* Math.ceil(a / b) for b > 0
Ceil(a, b) == -((-a) \div b)

\* a value that is true in a condition
Truthy(obj, f) ==
    /\ Has(obj, f)
    /\ obj[f] # FALSE
    /\ obj[f] # << >>

\* mutant: the days are rounded down
getDaysOverdue_floor(invoice, today) ==
    IF Has(invoice, "is_paid") /\ invoice.is_paid THEN 0
    ELSE IF ~(Has(invoice, "date_due") /\ invoice.date_due # << >>) THEN 0
    ELSE IF ~IsDateString(invoice.date_due) THEN 0
    ELSE LET diffDays == (today - DateTicks(invoice.date_due)) \div TicksPerDay
         IN  IF diffDays > 0 THEN diffDays ELSE 0

getDaysOverdue(invoice, today) ==
    IF Has(invoice, "is_paid") /\ invoice.is_paid THEN 0
    ELSE IF ~(Has(invoice, "date_due") /\ invoice.date_due # << >>) THEN 0
    ELSE IF ~IsDateString(invoice.date_due) THEN 0
    ELSE LET diffTime == today - DateTicks(invoice.date_due)
             diffDays == Ceil(diffTime, TicksPerDay)
         IN  IF diffDays > 0 THEN diffDays ELSE 0

\* mutant: the sixteenth day is still a warning
getOverdueCategory_late(daysOverdue) ==
    IF daysOverdue = 0 THEN "ok"
    ELSE IF daysOverdue <= 16 THEN "warning"
    ELSE IF daysOverdue <= 30 THEN "danger"
    ELSE IF daysOverdue <= 90 THEN "danger"
    ELSE "critical"

getOverdueCategory(daysOverdue) ==
    IF daysOverdue = 0 THEN "ok"
    ELSE IF daysOverdue <= 15 THEN "warning"
    ELSE IF daysOverdue <= 30 THEN "danger"
    ELSE IF daysOverdue <= 90 THEN "danger"
    ELSE "critical"

getOverdueStatusText(daysOverdue) ==
    IF daysOverdue = 0 THEN "Uhrazeno"
    ELSE IF daysOverdue <= 15 THEN "0-15 dni"
    ELSE IF daysOverdue <= 30 THEN "15-30 dni"
    ELSE IF daysOverdue <= 90 THEN "30-90 dni"
    ELSE "90+ dni - PRAVNE ODD."

OverdueBuckets == {"0-15", "15-30", "30-90", "90+"}

\* a switch whose buckets share their limits
InOverdueBucket_overlap(days, overdueFilter) ==
    CASE overdueFilter = "0-15" -> days > 0 /\ days <= 15
      [] overdueFilter = "15-30" -> days >= 15 /\ days <= 30
      [] overdueFilter = "30-90" -> days >= 30 /\ days <= 90
      [] overdueFilter = "90+" -> days >= 90
      [] OTHER -> TRUE

\* the switch of getOverdueInvoices
InOverdueBucket(days, overdueFilter) ==
    CASE overdueFilter = "0-15" -> days > 0 /\ days <= 15
      [] overdueFilter = "15-30" -> days > 15 /\ days <= 30
      [] overdueFilter = "30-90" -> days > 30 /\ days <= 90
      [] overdueFilter = "90+" -> days > 90
      [] OTHER -> TRUE

\* Array.prototype.sort((a, b) => getDaysOverdue(b) - getDaysOverdue(a)): stable
RECURSIVE SortByDaysDesc(_, _)
SortByDaysDesc(s, today) ==
    IF s = << >> THEN << >>
    ELSE LET i == CHOOSE i \in 1..Len(s) :
                    /\ \A j \in 1..Len(s) :
                          getDaysOverdue(s[j], today) <= getDaysOverdue(s[i], today)
                    /\ \A j \in 1..(i - 1) :
                          getDaysOverdue(s[j], today) < getDaysOverdue(s[i], today)
         IN  <<s[i]>> \o SortByDaysDesc(RemoveAt(s, i), today)

getOverdueInvoices(invoices, sponsoring, sel, today) ==
    LET overdueFilter == sel["overdueFilter"]
        allInvoices == invoices \o sponsoring
        overdue == SelectSeq(allInvoices, LAMBDA inv :
                       /\ ~(Has(inv, "is_paid") /\ inv.is_paid)
                       /\ getDaysOverdue(inv, today) > 0)
        inBucket == IF overdueFilter # "all"
                    THEN SelectSeq(overdue, LAMBDA inv :
                             InOverdueBucket(getDaysOverdue(inv, today), overdueFilter))
                    ELSE overdue
    IN  SortByDaysDesc(inBucket, today)

\* the bucket of updateOverdueSummary for days > 0
SummaryBucket(days) ==
    IF days <= 15 THEN "0-15"
    ELSE IF days <= 30 THEN "15-30"
    ELSE IF days <= 90 THEN "30-90"
    ELSE "90+"

\* inv.currency === 'EUR' ? getPriceField(inv, 'EUR') * 25 : getPriceField(inv, 'CZK')
OverdueAmount(inv, sel) ==
    IF Has(inv, "currency") /\ inv.currency = "EUR"
    THEN getPriceField(inv, "EUR", sel) * 25
    ELSE getPriceField(inv, "CZK", sel)

\* updateOverdueSummary: count and amount of each card, from all invoices
OverdueSummary(invoices, sponsoring, sel, today) ==
    LET allInvoices == invoices \o sponsoring
        counted(b) == {i \in 1..Len(allInvoices) :
                          /\ ~(Has(allInvoices[i], "is_paid") /\ allInvoices[i].is_paid)
                          /\ getDaysOverdue(allInvoices[i], today) > 0
                          /\ SummaryBucket(getDaysOverdue(allInvoices[i], today)) = b}
    IN  [b \in OverdueBuckets |->
            [count |-> Cardinality(counted(b)),
             amount |-> SumFn([i \in counted(b) |-> OverdueAmount(allInvoices[i], sel)],
                              counted(b))]]

\* one row of updateOverdueTable
OverdueRow(inv, sel, today) ==
    LET daysOverdue == getDaysOverdue(inv, today)
        category == getOverdueCategory(daysOverdue)
    IN  [invoice_number |-> inv.invoice_number,
         daysOverdue |-> daysOverdue,
         category |-> category,
         statusText |-> getOverdueStatusText(daysOverdue),
         amount |-> IF Has(inv, "currency") /\ inv.currency = "EUR"
                    THEN getPriceField(inv, "EUR", sel)
                    ELSE getPriceField(inv, "CZK", sel),
         rowClass |-> IF category = "warning" THEN "overdue-row-warning"
                      ELSE IF category = "danger" THEN "overdue-row-danger"
                      ELSE IF category = "critical" THEN "overdue-row-critical"
                      ELSE ""]

OverdueTable(invoices, sel, today) ==
    [i \in 1..Len(invoices) |-> OverdueRow(invoices[i], sel, today)]

----------------------------------------------------------------------------
(* Monthly summary.  A ratio is the pair num / den as the division would   *)
(* see it: den = 0 makes the quotient NaN when num = 0 and an infinity of  *)
(* the sign of num otherwise.  The report is kept as the figures it shows. *)

Divide(a, b) == [num |-> a, den |-> b]

IsNaN(r) == r.den = 0 /\ r.num = 0

IsInfinity(r) == r.den = 0 /\ r.num # 0

\* String.prototype.startsWith(prefix)
startsWith(s, prefix) ==
    Len(s) >= Len(prefix) /\ SubSeq(s, 1, Len(prefix)) = prefix

\* String(n) for n >= 0
RECURSIVE ToDigits(_)
ToDigits(n) ==
    IF n < 10 THEN <<Digits[n + 1]>>
    ELSE ToDigits(n \div 10) \o <<Digits[(n % 10) + 1]>>

\* .padStart(2, '0')
PadStart2(s) == IF Len(s) < 2 THEN <<"0">> \o s ELSE s

\* the month before selectedMonth
PrevMonth(selectedMonth) ==
    LET year == SubSeq(selectedMonth, 1, 4)
        month == SubSeq(selectedMonth, 6, 7)
    IN  IF month = <<"0", "1">>
        THEN ToDigits(Decimal(year) - 1) \o <<"-", "1", "2">>
        ELSE year \o <<"-">> \o PadStart2(ToDigits(Decimal(month) - 1))

\* arr.filter(o => o.date.startsWith(month))
OfMonth(arr, month) == SelectSeq(arr, LAMBDA o : startsWith(o["date"], month))

\* the sum of amount[i] over the records of arr that pass keep
SumWhere(arr, keep, amount) ==
    SumFn([i \in {j \in 1..Len(arr) : keep[j]} |-> amount[i]],
          {j \in 1..Len(arr) : keep[j]})

\* reduce((sum, o) => sum + (o.total_czk || 0), 0) over the non-EUR records
TotalCZKOf(arr) ==
    SumWhere(arr, [i \in 1..Len(arr) |-> ~IsEUR(arr[i])],
             [i \in 1..Len(arr) |-> FieldOrZero(arr[i], "total_czk")])

\* reduce((sum, o) => sum + (o.total_eur || 0), 0) over the EUR records
TotalEUROf(arr) ==
    SumWhere(arr, [i \in 1..Len(arr) |-> IsEUR(arr[i])],
             [i \in 1..Len(arr) |-> FieldOrZero(arr[i], "total_eur")])

\* (o.total_czk || 0) + ((o.total_eur || 0) * 25)
MixedAmount(o) == FieldOrZero(o, "total_czk") + FieldOrZero(o, "total_eur") * 25

\* planData[selectedMonth] || { celkomCZ: 0, celkomSK: 0 }
SummaryPlan(selectedMonth) ==
    IF selectedMonth \in PlanMonths
    THEN [celkomCZ |-> planData[selectedMonth].celkomCZ,
          celkomSK |-> planData[selectedMonth].celkomSK]
    ELSE [celkomCZ |-> 0, celkomSK |-> 0]

\* den > 0 ? (num / den) * 100 : 0
GuardedPercent(num, den) ==
    IF den > 0 THEN Divide(num * 100, den) ELSE Divide(0, 1)

SummaryBrands == {"ENERVIT", "ROYALBAY", "VITAR"}

\* brandTotals of the month's items
SummaryBrandTotals(monthItems) ==
    [b \in SummaryBrands |->
        SumWhere(monthItems,
                 [i \in 1..Len(monthItems) |-> classifyBrand(monthItems[i]) = b],
                 [i \in 1..Len(monthItems) |-> MixedAmount(monthItems[i])])]

\* channelTotals of the month's orders
SummaryChannelTotals(monthOrders) ==
    [B2B |-> SumWhere(monthOrders,
                      [i \in 1..Len(monthOrders) |->
                          Has(monthOrders[i], "channel") /\ monthOrders[i]["channel"] = B2B],
                      [i \in 1..Len(monthOrders) |-> MixedAmount(monthOrders[i])]),
     ESHOP |-> SumWhere(monthOrders,
                        [i \in 1..Len(monthOrders) |->
                            ~(Has(monthOrders[i], "channel")
                              /\ monthOrders[i]["channel"] = B2B)],
                        [i \in 1..Len(monthOrders) |-> MixedAmount(monthOrders[i])])]

\* !customer || customer === 'Neznamy' || customer.trim() === ''
SkippedCustomer(o) ==
    \/ ~Has(o, "company")
    \/ o["company"] = NEZNAMY
    \/ \A i \in 1..Len(o["company"]) : o["company"][i] = " "

\* the object customerTotals of generateMonthlySummary
SummaryCustomers(monthOrders) ==
    forEach(LAMBDA customerTotals, o :
                IF SkippedCustomer(o) THEN customerTotals
                ELSE LET c0 == IF HasKey(customerTotals, o["company"])
                               THEN customerTotals.val[o["company"]]
                               ELSE [name |-> o["company"], orders |-> 0, total |-> 0]
                     IN  PutKey(customerTotals, o["company"],
                                [c0 EXCEPT !.orders = @ + 1,
                                           !.total = @ + MixedAmount(o)]),
            EmptyObject,
            monthOrders)

\* .slice(0, 5)
TopFive == 5

\* Object.entries(customerTotals).sort((a, b) => b[1].total - a[1].total).slice(0, 5)
Top5Customers(monthOrders) ==
    LET sorted == SortByTotalDesc(ObjectValues(SummaryCustomers(monthOrders)))
    IN  SubSeq(sorted, 1, Min(TopFive, Len(sorted)))

\* the customer concentration of generateExecutiveSummary
Top5Concentration(top5Customers, totalCZK, totalEUR) ==
    LET top5Total == SumFn([i \in 1..Len(top5Customers) |-> top5Customers[i].total],
                           1..Len(top5Customers))
        totalRevenue == totalCZK + totalEUR * 25
    IN  GuardedPercent(top5Total, totalRevenue)

\* invoiced > 0 && total > 0 ? (invoiced / total) * 100 : 0
OrderToInvoiceRatio(invoiced, total) ==
    IF invoiced > 0 /\ total > 0 THEN Divide(invoiced * 100, total) ELSE Divide(0, 1)

\* the ratios of the report and of its executive summary
\* r >= k and r > k, for a ratio r of positive denominator and a whole number k
RatioAtLeast(r, k) == r.num >= k * r.den

RatioAbove(r, k) == r.num > k * r.den

\* p / q >= r / s for q, s > 0 and p, r >= 0, by the whole parts and then the
\* reciprocals of the remainders
RECURSIVE FractionAtLeast(_, _, _, _)
FractionAtLeast(p, q, r, s) ==
    IF p \div q # r \div s THEN p \div q > r \div s
    ELSE IF r % s = 0 THEN TRUE
    ELSE IF p % q = 0 THEN FALSE
    ELSE FractionAtLeast(s, r % s, q, p % q)

\* (a + b) / 2 >= k
MeanAtLeast(a, b, k) ==
    LET whole == a.num \div a.den + b.num \div b.den
    IN  \/ whole >= 2 * k
        \/ /\ whole = 2 * k - 1
           /\ FractionAtLeast(a.num % a.den, a.den, b.den - (b.num % b.den), b.den)

\* an overall assessment that asks for partial fulfillment before compensation
OverallAssessment_partialFirst(planCZPercent, planSKPercent) ==
    LET czOverperformed == RatioAtLeast(planCZPercent, 100)
        skUnderperformed == ~RatioAtLeast(planSKPercent, 100)
        czCompensatedSk == /\ czOverperformed
                           /\ skUnderperformed
                           /\ MeanAtLeast(planCZPercent, planSKPercent, 95)
    IN  IF czOverperformed /\ RatioAtLeast(planSKPercent, 100) THEN <<"excellent">>
        ELSE IF RatioAtLeast(planCZPercent, 90) \/ RatioAtLeast(planSKPercent, 90)
        THEN <<"partial">>
        ELSE IF czCompensatedSk THEN <<"compensated">>
        ELSE <<"below">>

\* section 1 of generateExecutiveSummary: the fragments pushed to insights
OverallAssessment(planCZPercent, planSKPercent) ==
    LET czOverperformed == RatioAtLeast(planCZPercent, 100)
        skUnderperformed == ~RatioAtLeast(planSKPercent, 100)
        czCompensatedSk == /\ czOverperformed
                           /\ skUnderperformed
                           /\ MeanAtLeast(planCZPercent, planSKPercent, 95)
    IN  IF czOverperformed /\ RatioAtLeast(planSKPercent, 100) THEN <<"excellent">>
        ELSE IF czCompensatedSk THEN <<"compensated">>
        ELSE IF RatioAtLeast(planCZPercent, 90) \/ RatioAtLeast(planSKPercent, 90)
        THEN <<"partial">>
        ELSE <<"below">>

\* section 4 of generateExecutiveSummary: the fragments pushed to insights
ChannelMix(b2bPercent, eshopPercent) ==
    IF RatioAbove(b2bPercent, 60) THEN <<"b2bDominant">>
    ELSE IF RatioAbove(eshopPercent, 60) THEN <<"eshopDominant">>
    ELSE <<"balanced">>

\* generateExecutiveSummary: the fragments of the overall assessment and of the
\* channel mix, each section in the order pushed
generateExecutiveSummary(planCZPercent, planSKPercent, b2bPercent, eshopPercent) ==
    [assessment |-> OverallAssessment(planCZPercent, planSKPercent),
     channelMix |-> ChannelMix(b2bPercent, eshopPercent)]

generateMonthlySummary(orders, invoices, items, selectedMonth) ==
    LET monthOrders == OfMonth(orders, selectedMonth)
        monthInvoices == OfMonth(invoices, selectedMonth)
        monthItems == OfMonth(items, selectedMonth)
        prevMonthOrders == OfMonth(orders, PrevMonth(selectedMonth))
        totalCZK == TotalCZKOf(monthOrders)
        totalEUR == TotalEUROf(monthOrders)
        prevTotalCZK == TotalCZKOf(prevMonthOrders)
        prevTotalEUR == TotalEUROf(prevMonthOrders)
        plan == SummaryPlan(selectedMonth)
        invoicedCZK == TotalCZKOf(monthInvoices)
        invoicedEUR == TotalEUROf(monthInvoices)
        paidInvoices == Len(SelectSeq(monthInvoices,
                            LAMBDA i : Has(i, "is_paid") /\ i["is_paid"]))
        brandTotals == SummaryBrandTotals(monthItems)
        brandTotal == brandTotals["ENERVIT"] + brandTotals["ROYALBAY"]
                          + brandTotals["VITAR"]
        channelTotals == SummaryChannelTotals(monthOrders)
        channelTotal == channelTotals.ESHOP + channelTotals.B2B
        top5Customers == Top5Customers(monthOrders)
    IN  [selectedMonth |-> selectedMonth,
         totalCZK |-> totalCZK,
         totalEUR |-> totalEUR,
         ratios |->
           [planCZPercent |-> GuardedPercent(totalCZK, plan.celkomCZ),
            planSKPercent |-> GuardedPercent(totalEUR, plan.celkomSK),
            momChangeCZ |-> GuardedPercent(totalCZK - prevTotalCZK, prevTotalCZK),
            momChangeSK |-> GuardedPercent(totalEUR - prevTotalEUR, prevTotalEUR),
            paidPercent |-> GuardedPercent(paidInvoices, Len(monthInvoices)),
            brandENERVIT |-> GuardedPercent(brandTotals["ENERVIT"], brandTotal),
            brandROYALBAY |-> GuardedPercent(brandTotals["ROYALBAY"], brandTotal),
            brandVITAR |-> GuardedPercent(brandTotals["VITAR"], brandTotal),
            eshopPercent |-> GuardedPercent(channelTotals.ESHOP, channelTotal),
            b2bPercent |-> GuardedPercent(channelTotals.B2B, channelTotal),
            countryCZ |-> Divide(totalCZK * 100, totalCZK + totalEUR * 25),
            countrySK |-> Divide(totalEUR * 25 * 100, totalCZK + totalEUR * 25),
            invoicePlanCZPercent |-> GuardedPercent(invoicedCZK, plan.celkomCZ),
            invoicePlanSKPercent |-> GuardedPercent(invoicedEUR, plan.celkomSK),
            orderToInvoiceRatioCZ |-> OrderToInvoiceRatio(invoicedCZK, totalCZK),
            orderToInvoiceRatioSK |-> OrderToInvoiceRatio(invoicedEUR, totalEUR),
            top5Concentration |->
                Top5Concentration(top5Customers, totalCZK, totalEUR)],
         showsConcentration |-> Len(top5Customers) > 0,
         executive |->
            generateExecutiveSummary(GuardedPercent(totalCZK, plan.celkomCZ),
                                     GuardedPercent(totalEUR, plan.celkomSK),
                                     GuardedPercent(channelTotals.B2B, channelTotal),
                                     GuardedPercent(channelTotals.ESHOP, channelTotal))]

----------------------------------------------------------------------------
(* updateDisplay.  The tables are written in source order; a TypeError in  *)
(* one of the calls leaves the handler, so the elements after it keep      *)
(* what they showed before.                                                *)

ElementIds ==
    {"summaryCards", "brandTable", "czTable", "skTable", "monthlyTable",
     "b2bTable", "ordersTable", "top10CustomersTable", "top10ProductsTable",
     "planCZTable", "planSKTable", "planB2BTable",
     "overdueSummary", "overdueTable", "overdueCount",
     "stockSummary", "stockTable", "stockCount", "summaryContent"}

NotRendered == [written |-> FALSE]

Rendered(v) == [written |-> TRUE, value |-> v]

Write(id, call) == [id |-> id, threw |-> call.threw, value |-> call.value]

Returned(v) == [threw |-> FALSE, value |-> v]

\* the writes of updateDisplay() after both filters returned
\* plan tables computed from the filtered orders
PlanSource_filtered(filteredOrders, allCurrentData) == filteredOrders

\* the argument of updatePlanCZTable, updatePlanSKTable and updatePlanB2BTable
PlanSource(filteredOrders, allCurrentData) == allCurrentData

DisplaySteps(filteredOrders, filteredItems, allCurrentData, allCurrentItems, sel) ==
    LET brandData == aggregateByBrand(allCurrentItems, sel)
        monthlyData == aggregateByMonth(filteredOrders, sel)
        b2bData == aggregateB2BBySalesperson(filteredOrders, sel)
        planMonthly == aggregateByMonth(PlanSource(filteredOrders, allCurrentData), sel)
        planB2B == aggregateB2BBySalesperson(PlanSource(filteredOrders, allCurrentData),
                                             sel)
    IN  << Write("summaryCards", Returned(SummaryCards(filteredOrders, sel))),
           Write("brandTable",
                 [threw |-> brandData.threw, value |-> BrandTable(brandData.value)]),
           Write("czTable",
                 [threw |-> monthlyData.threw, value |-> CZTable(monthlyData.value)]),
           Write("skTable",
                 [threw |-> monthlyData.threw, value |-> SKTable(monthlyData.value)]),
           Write("monthlyTable", monthlyData),
           Write("b2bTable",
                 [threw |-> b2bData.threw, value |-> B2BTable(b2bData.value)]),
           Write("ordersTable",
                 [threw |-> \E i \in 1..Len(limitedOrders(filteredOrders)) :
                                ~Has(filteredOrders[i], "channel"),
                  value |-> limitedOrders(filteredOrders)]),
           Write("top10CustomersTable",
                 Returned(Top10Customers(filteredOrders, sel))),
           Write("top10ProductsTable",
                 Returned(Top10Products(filteredItems, sel))),
           Write("planCZTable",
                 [threw |-> planMonthly.threw, value |-> PlanCZTable(planMonthly.value)]),
           Write("planSKTable",
                 [threw |-> planMonthly.threw, value |-> PlanSKTable(planMonthly.value)]),
           Write("planB2BTable",
                 [threw |-> planB2B.threw, value |-> PlanB2BTable(planB2B.value)]) >>

\* the steps that ran before the first TypeError
Completed(steps) ==
    {i \in 1..Len(steps) : \A j \in 1..i : ~steps[j].threw}

updateDisplay(d, allCurrentData, allCurrentItems, sel) ==
    LET filteredOrders == getFilteredOrders(allCurrentData, sel)
        filteredItems == getFilteredItems(allCurrentItems, sel)
    IN  IF filteredOrders.threw \/ filteredItems.threw THEN d
        ELSE LET steps == DisplaySteps(filteredOrders.value, filteredItems.value,
                                       allCurrentData, allCurrentItems, sel)
                 completed == Completed(steps)
             IN  [id \in ElementIds |->
                    IF \E i \in completed : steps[i].id = id
                    THEN Rendered(steps[CHOOSE i \in completed :
                                            steps[i].id = id].value)
                    ELSE d[id]]

----------------------------------------------------------------------------
(* The filter selects.  The options of the month, payment and city selects *)
(* are built from the store at load; the other selects are static.         *)

RangeOf(s) == {s[i] : i \in 1..Len(s)}

\* initMonthFilter
MonthOptions(data) == {ALL} \cup {substring(o["date"], 0, 7) : o \in RangeOf(data)}

\* initPaymentFilter
PaymentOptions(data) ==
    {"all"} \cup {o["payment_type"] :
                    o \in {x \in RangeOf(data) : Has(x, "payment_type")}}

\* initCityFilter
CityOptions(data) ==
    {"all"} \cup {o["city"] : o \in {x \in RangeOf(data) : Has(x, "city")}}

MarketOptions == {"all", "CZ", "SK"}

ChannelOptions == {"all", "ESHOP_ENERVIT", "ESHOP_ROYALBAY", "B2B"}

SalespersonOptions == {"all", "Karolina"}

VatOptions == {"with_vat", "without_vat"}

SelectIds ==
    {"monthFilter", "marketFilter", "channelFilter", "salespersonFilter",
     "paymentFilter", "cityFilter", "vatFilter"}

Options(id, data) ==
    CASE id = "monthFilter" -> MonthOptions(data)
      [] id = "marketFilter" -> MarketOptions
      [] id = "channelFilter" -> ChannelOptions
      [] id = "salespersonFilter" -> SalespersonOptions
      [] id = "paymentFilter" -> PaymentOptions(data)
      [] id = "cityFilter" -> CityOptions(data)
      [] id = "vatFilter" -> VatOptions

\* the selects of the overdue, stock and summary views
ViewSelectIds ==
    {"overdueFilter", "stockBrandFilter", "stockStatusFilter", "summaryMonthFilter"}

OverdueOptions == {"all"} \cup OverdueBuckets

StockBrandOptions == {"all", "ENERVIT", "ROYALBAY"}

StockStatusOptions == {"all"} \cup StockStatuses

SummaryMonthOptions == {M_2025_03, M_2025_04, M_2025_11}

DefaultSelects ==
    [id \in SelectIds \cup ViewSelectIds |->
        IF id = "monthFilter" THEN ALL
        ELSE IF id = "vatFilter" THEN "with_vat"
        ELSE IF id = "summaryMonthFilter" THEN M_2025_11
        ELSE "all"]

\* the selects whose options initMonthFilter, initPaymentFilter and
\* initCityFilter build from the store of the view
BuiltSelectIds == {"monthFilter", "paymentFilter", "cityFilter"}

BuiltOptions(data) == [id \in BuiltSelectIds |-> Options(id, data)]

----------------------------------------------------------------------------
(* Record stores.                                                          *)

MaxOrders == 2
MaxItems == 2

SeqsUpTo(S, n) == UNION {[1..k -> S] : k \in 0..n}

P_ENERVIT_GEL == <<"E","n","e","r","v","i","t"," ","G","e","l">>
P_ROYAL_BAY_SOCKS == <<"R","o","y","a","l"," ","B","a","y"," ","S","o","c","k","s">>
P_SHAKER == <<"S","h","a","k","e","r">>
K_30 == <<"3","0">>
K_7 == <<"7">>
K_A1 == <<"A","1">>
K_ALFA == <<"A","l","f","a">>

\* orders that differ in date, currency, channel and salesperson
FilterOrders ==
    {[date |-> D_2025_03_15, currency |-> "CZK", channel |-> ESHOP_ENERVIT_CZ,
      total_czk |-> 121, total_czk_bez_dph |-> 100],
     [date |-> D_2025_03_20, currency |-> "EUR", channel |-> ESHOP_ROYALBAY_SK,
      total_eur |-> 12, total_eur_bez_dph |-> 10],
     [date |-> D_2025_04_01, currency |-> "CZK", channel |-> B2B,
      salesperson |-> "Karolina", total_czk |-> 242, total_czk_bez_dph |-> 200],
     [date |-> D_2025_04_02, currency |-> "EUR", channel |-> B2B,
      salesperson |-> "Jirka", total_eur |-> 24, total_eur_bez_dph |-> 20]}

\* orders that differ in payment type and city
PaidOrders ==
    {[date |-> D_2025_03_15, currency |-> "CZK", channel |-> ESHOP_ENERVIT_CZ,
      payment_type |-> "card", city |-> "Praha",
      total_czk |-> 121, total_czk_bez_dph |-> 100],
     [date |-> D_2025_03_15, currency |-> "CZK", channel |-> ESHOP_ENERVIT_CZ,
      payment_type |-> "cash",
      total_czk |-> 121, total_czk_bez_dph |-> 100]}

\* line items that differ in brand, product key, currency and the filtered fields
FilterItems ==
    {[date |-> D_2025_03_15, currency |-> "CZK", channel |-> ESHOP_ENERVIT_CZ,
      product_code |-> K_30, product_name |-> P_ENERVIT_GEL, quantity |-> 2,
      total_czk |-> 121, total_czk_bez_dph |-> 100],
     [date |-> D_2025_04_01, currency |-> "EUR", channel |-> B2B,
      salesperson |-> "Karolina",
      product_code |-> K_7, product_name |-> P_ROYAL_BAY_SOCKS, quantity |-> 1,
      total_czk |-> 121, total_czk_bez_dph |-> 100,
      total_eur |-> 12, total_eur_bez_dph |-> 10],
     [date |-> D_2025_03_20, currency |-> "CZK", channel |-> ESHOP_ROYALBAY_CZ,
      product_name |-> P_SHAKER, quantity |-> 3,
      total_czk |-> 242, total_czk_bez_dph |-> 200],
     [date |-> D_2025_04_01, currency |-> "CZK", channel |-> B2B,
      product_code |-> K_A1, quantity |-> 1,
      total_czk |-> 121, total_czk_bez_dph |-> 100]}

\* orders of every channel bucket, and one of a channel without a bucket
ChannelOrders ==
    {[date |-> D_2025_03_15, currency |-> "CZK", channel |-> ESHOP_ENERVIT_CZ,
      total_czk |-> 121, total_czk_bez_dph |-> 100],
     [date |-> D_2025_03_15, currency |-> "EUR", channel |-> ESHOP_ENERVIT_SK,
      total_eur |-> 12, total_eur_bez_dph |-> 10],
     [date |-> D_2025_03_20, currency |-> "CZK", channel |-> ESHOP_ROYALBAY_CZ,
      total_czk |-> 242, total_czk_bez_dph |-> 200],
     [date |-> D_2025_03_20, currency |-> "EUR", channel |-> ESHOP_ROYALBAY_SK,
      total_eur |-> 24, total_eur_bez_dph |-> 20],
     [date |-> D_2025_04_01, currency |-> "CZK", channel |-> B2B,
      total_czk |-> 363, total_czk_bez_dph |-> 300],
     [date |-> D_2025_03_15, currency |-> "EUR", channel |-> B2B,
      total_czk |-> 900, total_czk_bez_dph |-> 750,
      total_eur |-> 36, total_eur_bez_dph |-> 30],
     [date |-> D_2025_03_15, currency |-> "CZK", channel |-> OTHER_CHANNEL,
      total_czk |-> 484, total_czk_bez_dph |-> 400]}

\* B2B orders of a roster salesperson, of nobody and of an outsider, a B2B
\* order in EUR and an e-shop order
SalespersonOrders ==
    {[date |-> D_2025_03_15, currency |-> "CZK", channel |-> B2B,
      salesperson |-> "Karolina", total_czk |-> 121, total_czk_bez_dph |-> 100],
     [date |-> D_2025_03_20, currency |-> "CZK", channel |-> B2B,
      total_czk |-> 242, total_czk_bez_dph |-> 200],
     [date |-> D_2025_04_01, currency |-> "CZK", channel |-> B2B,
      salesperson |-> "Novak", total_czk |-> 363, total_czk_bez_dph |-> 300],
     [date |-> D_2025_03_15, currency |-> "EUR", channel |-> B2B,
      salesperson |-> "Karolina", total_czk |-> 900, total_czk_bez_dph |-> 750,
      total_eur |-> 36, total_eur_bez_dph |-> 30],
     [date |-> D_2025_03_15, currency |-> "CZK", channel |-> ESHOP_ENERVIT_CZ,
      salesperson |-> "Jirka", total_czk |-> 484, total_czk_bez_dph |-> 400]}

\* orders that differ in company, three of them with the same total
CompanyOrders ==
    {[date |-> D_2025_03_15, currency |-> "CZK", channel |-> B2B,
      company |-> K_30, total_czk |-> 121, total_czk_bez_dph |-> 100],
     [date |-> D_2025_03_15, currency |-> "CZK", channel |-> B2B,
      company |-> K_7, total_czk |-> 121, total_czk_bez_dph |-> 100],
     [date |-> D_2025_03_15, currency |-> "CZK", channel |-> B2B,
      company |-> K_ALFA, total_czk |-> 121, total_czk_bez_dph |-> 100],
     [date |-> D_2025_03_15, currency |-> "CZK", channel |-> B2B,
      total_czk |-> 242, total_czk_bez_dph |-> 200]}

\* line items that differ in product key, three of them with the same total
ProductItems ==
    {[date |-> D_2025_03_15, currency |-> "CZK", channel |-> B2B,
      product_code |-> K_30, product_name |-> P_ENERVIT_GEL, quantity |-> 2,
      total_czk |-> 121, total_czk_bez_dph |-> 100],
     [date |-> D_2025_03_15, currency |-> "CZK", channel |-> B2B,
      product_code |-> K_7, product_name |-> P_ROYAL_BAY_SOCKS, quantity |-> 1,
      total_czk |-> 121, total_czk_bez_dph |-> 100],
     [date |-> D_2025_03_15, currency |-> "CZK", channel |-> B2B,
      product_name |-> P_SHAKER, quantity |-> 3,
      total_czk |-> 121, total_czk_bez_dph |-> 100],
     [date |-> D_2025_03_15, currency |-> "CZK", channel |-> B2B,
      product_code |-> K_A1, product_name |-> P_SHAKER, quantity |-> 1,
      total_czk |-> 242, total_czk_bez_dph |-> 200]}

ManyCompanies == <<"A", "B", "C", "D", "E", "F", "G", "H", "I", "J", "K", "L">>

\* one order for each of twelve companies, the totals rising
ManyOrders ==
    [i \in 1..Len(ManyCompanies) |->
        [date |-> D_2025_03_15, currency |-> "CZK", channel |-> B2B,
         company |-> <<ManyCompanies[i]>>,
         total_czk |-> 121 * i, total_czk_bez_dph |-> 100 * i]]

\* orders of one customer in CZK and in EUR, of nobody and of a second customer
CustomerOrders ==
    {[date |-> D_2025_03_15, currency |-> "CZK", channel |-> B2B,
      company |-> K_ALFA, total_czk |-> 121, total_czk_bez_dph |-> 100],
     [date |-> D_2025_03_20, currency |-> "EUR", channel |-> B2B,
      company |-> K_ALFA, total_eur |-> 12, total_eur_bez_dph |-> 10],
     [date |-> D_2025_03_15, currency |-> "CZK", channel |-> ESHOP_ENERVIT_CZ,
      total_czk |-> 242, total_czk_bez_dph |-> 200],
     [date |-> D_2025_04_01, currency |-> "CZK", channel |-> ESHOP_ENERVIT_CZ,
      company |-> K_7, total_czk |-> 363, total_czk_bez_dph |-> 300]}

D_2026_01_05 == <<"2","0","2","6","-","0","1","-","0","5">>

\* the order of the example scenario
ExampleOrder ==
    [date |-> D_2025_03_15, currency |-> "CZK", channel |-> B2B,
     salesperson |-> "Karolina", total_czk |-> 10000]

\* orders at the tier limits of the plan of 2025-03 (90 % with VAT, 70 %
\* without), an order of the remaining 10 %, an order of exactly the plan of
\* 2025-04, an order in EUR and the order of the example scenario
PlanOrders ==
    {[date |-> D_2025_03_15, currency |-> "CZK", channel |-> ESHOP_ENERVIT_CZ,
      total_czk |-> 1950939, total_czk_bez_dph |-> 1517397],
     [date |-> D_2025_03_20, currency |-> "CZK", channel |-> ESHOP_ROYALBAY_CZ,
      total_czk |-> 216771, total_czk_bez_dph |-> 179150],
     [date |-> D_2025_04_01, currency |-> "CZK", channel |-> ESHOP_ENERVIT_CZ,
      total_czk |-> 2785390, total_czk_bez_dph |-> 2301975],
     [date |-> D_2025_04_02, currency |-> "EUR", channel |-> ESHOP_ENERVIT_SK,
      total_eur |-> 16358, total_eur_bez_dph |-> 13519],
     ExampleOrder}

\* a credit note, and an order of a month that has no plan
RefundOrders ==
    {[date |-> D_2025_03_15, currency |-> "CZK", channel |-> ESHOP_ENERVIT_CZ,
      total_czk |-> 0 - 121, total_czk_bez_dph |-> 0 - 100],
     [date |-> D_2026_01_05, currency |-> "CZK", channel |-> ESHOP_ENERVIT_CZ,
      total_czk |-> 121, total_czk_bez_dph |-> 100],
     [date |-> D_2025_03_20, currency |-> "CZK", channel |-> B2B,
      salesperson |-> "Karolina",
      total_czk |-> 242, total_czk_bez_dph |-> 200]}

P_ENERVIT_ISOTONIC ==
    <<"E","n","e","r","v","i","t"," ","I","s","o","t","o","n","i","c"," ",
      "S","p","o","r","t"," ","D","r","i","n","k">>

P_ROYAL_BAY_COMPRESSION ==
    <<"R","o","y","a","l"," ","B","a","y"," ","C","o","m","p","r","e","s",
      "s","i","o","n"," ","S","o","c","k","s">>

P_GENERIC_SHAKER ==
    <<"G","e","n","e","r","i","c"," ","S","h","a","k","e","r">>

P_ROYALBAY_ENERVIT ==
    <<"R","o","y","a","l","b","a","y"," ","s","o","c","k","s"," ","a","n",
      "d"," ","E","n","e","r","v","i","t"," ","b","a","r">>

P_GEL_60_ML ==
    <<"G","e","l"," ","(","6","0"," ","m","l",")">>

BrandNames ==
    {P_ENERVIT_ISOTONIC, P_ROYAL_BAY_COMPRESSION, P_GENERIC_SHAKER,
     P_ROYALBAY_ENERVIT, P_GEL_60_ML, << >>}

\* one line item for every product name, and one without a name
BrandItems ==
    {[date |-> D_2025_03_15, currency |-> "CZK", channel |-> ESHOP_ENERVIT_CZ,
      product_code |-> K_A1, product_name |-> name, quantity |-> 1,
      total_czk |-> 121, total_czk_bez_dph |-> 100] : name \in BrandNames}
    \cup {[date |-> D_2025_03_15, currency |-> "CZK", channel |-> ESHOP_ENERVIT_CZ,
           product_code |-> K_A1, quantity |-> 1,
           total_czk |-> 121, total_czk_bez_dph |-> 100]}

MaxBrandItems == 1

\* the store of the runs that vary the other store
FixedOrders ==
    << [date |-> D_2025_03_15, currency |-> "CZK", channel |-> ESHOP_ENERVIT_CZ,
        total_czk |-> 121, total_czk_bez_dph |-> 100] >>

FixedItems ==
    << [date |-> D_2025_03_15, currency |-> "CZK", channel |-> ESHOP_ENERVIT_CZ,
        product_code |-> K_30, product_name |-> P_ENERVIT_GEL, quantity |-> 2,
        total_czk |-> 121, total_czk_bez_dph |-> 100] >>

D_2025_06_01 == <<"2","0","2","5","-","0","6","-","0","1">>
D_2025_06_16 == <<"2","0","2","5","-","0","6","-","1","6">>
D_2025_07_01 == <<"2","0","2","5","-","0","7","-","0","1">>
D_2025_07_02 == <<"2","0","2","5","-","0","7","-","0","2">>
NOT_A_DATE == <<"n","/","a">>

\* the page is loaded at 2025-07-01T00:00Z
StartOfClock == DateTicks(D_2025_07_01)

MaxTicks == 2
MaxHours == 10
MaxInvoices == 2
MaxStock == 2

\* invoices due 15, 30 and 90 days before the page is loaded, on that day and
\* the day after, a paid one and two without a usable due date
DueInvoices ==
    {[invoice_number |-> 1, date |-> D_2025_06_01, date_due |-> D_2025_06_16,
      currency |-> "CZK", channel |-> B2B, is_paid |-> FALSE,
      total_czk |-> 121, total_czk_bez_dph |-> 100],
     [invoice_number |-> 2, date |-> D_2025_04_02, date_due |-> D_2025_06_01,
      currency |-> "CZK", channel |-> B2B, is_paid |-> FALSE,
      total_czk |-> 242, total_czk_bez_dph |-> 200],
     [invoice_number |-> 3, date |-> D_2025_03_20, date_due |-> D_2025_04_02,
      currency |-> "EUR", channel |-> B2B, is_paid |-> FALSE,
      total_eur |-> 12, total_eur_bez_dph |-> 10],
     [invoice_number |-> 4, date |-> D_2025_06_16, date_due |-> D_2025_07_01,
      currency |-> "CZK", channel |-> B2B,
      total_czk |-> 363, total_czk_bez_dph |-> 300],
     [invoice_number |-> 5, date |-> D_2025_06_16, date_due |-> D_2025_07_02,
      currency |-> "CZK", channel |-> B2B, is_paid |-> FALSE,
      total_czk |-> 121, total_czk_bez_dph |-> 100],
     [invoice_number |-> 6, date |-> D_2025_03_20, date_due |-> D_2025_04_02,
      currency |-> "CZK", channel |-> B2B, is_paid |-> TRUE,
      total_czk |-> 121, total_czk_bez_dph |-> 100],
     [invoice_number |-> 7, date |-> D_2025_03_20,
      currency |-> "CZK", channel |-> B2B, is_paid |-> FALSE,
      total_czk |-> 121, total_czk_bez_dph |-> 100],
     [invoice_number |-> 8, date |-> D_2025_03_20, date_due |-> NOT_A_DATE,
      currency |-> "CZK", channel |-> B2B, is_paid |-> FALSE,
      total_czk |-> 121, total_czk_bez_dph |-> 100]}

\* stock items on both sides of every limit, one without sales, one sold out
StockItems ==
    {[code |-> 1, brand |-> "ENERVIT", count |-> 5, days_remaining |-> -1],
     [code |-> 2, brand |-> "ENERVIT", count |-> 5, days_remaining |-> 29],
     [code |-> 3, brand |-> "ROYALBAY", count |-> 5, days_remaining |-> 30],
     [code |-> 4, brand |-> "ENERVIT", count |-> 5, days_remaining |-> 59],
     [code |-> 5, brand |-> "ROYALBAY", count |-> 5, days_remaining |-> 60],
     [code |-> 6, brand |-> "ENERVIT", count |-> 5, days_remaining |-> 120],
     [code |-> 7, brand |-> "ROYALBAY", count |-> 5, days_remaining |-> 121],
     [code |-> 8, brand |-> "ENERVIT", count |-> 0, days_remaining |-> 0]}

\* orders of two months, none of them in the month the summary opens with
SummaryOrders ==
    {[date |-> D_2025_03_15, currency |-> "CZK", channel |-> ESHOP_ENERVIT_CZ,
      total_czk |-> 121, total_czk_bez_dph |-> 100],
     [date |-> D_2025_03_20, currency |-> "EUR", channel |-> ESHOP_ROYALBAY_SK,
      total_eur |-> 12, total_eur_bez_dph |-> 10],
     [date |-> D_2025_04_01, currency |-> "CZK", channel |-> B2B, company |-> K_ALFA,
      salesperson |-> "Karolina", total_czk |-> 242, total_czk_bez_dph |-> 200],
     [date |-> D_2025_04_02, currency |-> "EUR", channel |-> B2B,
      salesperson |-> "Jirka", total_eur |-> 24, total_eur_bez_dph |-> 20]}

\* the stores of the runs that vary another store
FixedInvoices ==
    << [invoice_number |-> 6, date |-> D_2025_03_20, date_due |-> D_2025_04_02,
        currency |-> "CZK", channel |-> B2B, is_paid |-> TRUE,
        total_czk |-> 121, total_czk_bez_dph |-> 100] >>

FixedInvoiceItems ==
    << [date |-> D_2025_03_20, currency |-> "CZK", channel |-> B2B,
        product_code |-> K_30, product_name |-> P_ENERVIT_GEL, quantity |-> 1,
        total_czk |-> 121, total_czk_bez_dph |-> 100] >>

FixedSponsoring ==
    << [invoice_number |-> 9, date |-> D_2025_06_01, date_due |-> D_2025_06_16,
        currency |-> "CZK", channel |-> B2B, is_paid |-> FALSE,
        total_czk |-> 484, total_czk_bez_dph |-> 400] >>

FixedSponsoringItems ==
    << [date |-> D_2025_06_01, currency |-> "CZK", channel |-> B2B,
        product_code |-> K_7, product_name |-> P_SHAKER, quantity |-> 1,
        total_czk |-> 484, total_czk_bez_dph |-> 400] >>

FixedStock ==
    << [code |-> 2, brand |-> "ENERVIT", count |-> 5, days_remaining |-> 29] >>

----------------------------------------------------------------------------
(* Authentication (src/auth.js).  A user name is a sequence of one-        *)
(* character strings, because login() lower-cases and trims it; a password *)
(* is only compared.  The item of sessionStorage is a JSON text: the text  *)
(* of an object, or a text that JSON.parse rejects.                        *)

users ==
    <<"a","d","m","i","n">> :> "EnervitBoss2025!" @@
    <<"k","a","r","o","l","i","n","a",".","c","a","l","d","a">> :> "SprintKral1ca#" @@
    <<"j","i","r","i",".","g","o","i","s">> :> "MaratonMan42km" @@
    <<"s","t","e","p","a","n",".","f","r","y","s","a","r","a">> :> "TriathlonTurbo3!" @@
    <<"d","a","n","i","e","l",".","p","a","v","l","i","s">> :> "CykloSpeed100@" @@
    <<"t","o","m","a","s",".","c","e","r","v","i","n","k","a">> :> "PowerGel4Ever#" @@
    <<"v","l","a","d","i","m","i","r",".","p","o","l","a","s","e","k">> :> "IsoCarb2Win!"

\* String.prototype.toLowerCase, on the ASCII letters
toLowerCase(s) ==
    [i \in 1..Len(s) |->
        IF \E j \in 1..Len(UpperPairs) : UpperPairs[j][2] = s[i]
        THEN UpperPairs[CHOOSE j \in 1..Len(UpperPairs) : UpperPairs[j][2] = s[i]][1]
        ELSE s[i]]

\* String.prototype.trim, for the blank
RECURSIVE trim(_)
trim(s) ==
    IF s = << >> THEN s
    ELSE IF Head(s) = " " THEN trim(Tail(s))
    ELSE IF s[Len(s)] = " " THEN trim(SubSeq(s, 1, Len(s) - 1))
    ELSE s

\* sessionStorage.getItem('vitar_auth') of an empty store: null
NoSession == [stored |-> FALSE]

\* a text that is not JSON
NotJSON == [stored |-> TRUE, text |-> [json |-> FALSE]]

\* sessionStorage.setItem('vitar_auth', JSON.stringify(value))
Stored(value) == [stored |-> TRUE, text |-> [json |-> TRUE, value |-> value]]

\* JSON.parse
JSONparse(text) ==
    IF text.json THEN [threw |-> FALSE, value |-> text.value]
    ELSE [threw |-> TRUE]

\* the ticks of an hour
TicksPerHour == TicksPerDay \div 24

\* 8 * 60 * 60 * 1000 ms, in hours
SessionHours == 8

\* a check that expires the session when it is 8 hours old
isAuthenticated_atEight(store, t) ==
    IF ~store.stored THEN [result |-> FALSE, store |-> store]
    ELSE LET data == JSONparse(store.text)
         IN  IF data.threw THEN [result |-> FALSE, store |-> store]
             ELSE IF t - data.value.timestamp >= SessionHours * TicksPerHour
             THEN [result |-> FALSE, store |-> NoSession]
             ELSE [result |-> TRUE, store |-> store]

\* isAuthenticated: what it returns and what it leaves in sessionStorage
isAuthenticated(store, t) ==
    IF ~store.stored THEN [result |-> FALSE, store |-> store]
    ELSE LET data == JSONparse(store.text)
         IN  IF data.threw THEN [result |-> FALSE, store |-> store]
             ELSE IF t - data.value.timestamp > SessionHours * TicksPerHour
             THEN [result |-> FALSE, store |-> NoSession]
             ELSE [result |-> TRUE, store |-> store]

\* the null of getCurrentUser
NoUser == [null |-> TRUE]

getCurrentUser(store) ==
    IF ~store.stored THEN NoUser
    ELSE LET data == JSONparse(store.text)
         IN  IF data.threw THEN NoUser
             ELSE [null |-> FALSE, username |-> data.value.username]

\* a login that does not trim the user name
login_untrimmed(username, password, store, t) ==
    LET user == toLowerCase(username)
    IN  IF user \in DOMAIN users /\ users[user] = password
        THEN [result |-> TRUE, store |-> Stored([username |-> user, timestamp |-> t])]
        ELSE [result |-> FALSE, store |-> store]

\* login: what it returns and what it leaves in sessionStorage
login(username, password, store, t) ==
    LET user == trim(toLowerCase(username))
    IN  IF user \in DOMAIN users /\ users[user] = password
        THEN [result |-> TRUE, store |-> Stored([username |-> user, timestamp |-> t])]
        ELSE [result |-> FALSE, store |-> store]

\* logout: sessionStorage.removeItem('vitar_auth')
logout(store) == NoSession

----------------------------------------------------------------------------
(* The state machine.  DOMContentLoaded fills the selects, attaches the    *)
(* listeners and calls updateDisplay(); initMonthFilter reads o.date of    *)
(* every order, so a page whose listeners are attached holds orders with   *)
(* a date.                                                                 *)

Views == {"orders", "invoices", "sponsoring", "overdue", "stock", "summary"}

getCurrentData(view) ==
    IF view = "orders" THEN ordersData
    ELSE IF view = "invoices" THEN invoicesData
    ELSE IF view = "sponsoring" THEN sponsoringData
    ELSE ordersData

getCurrentItems(view) ==
    IF view = "orders" THEN itemsData
    ELSE IF view = "invoices" THEN invoiceItemsData
    ELSE IF view = "sponsoring" THEN sponsoringItemsData
    ELSE itemsData

\* the elements whose style.display the view buttons set
StyledIds ==
    {"overdueFilterGroup", "overdueSection", "stockBrandFilterGroup",
     "stockStatusFilterGroup", "stockSection", "summaryMonthFilterGroup",
     "summarySection", "summaryCards", "tabs", "tabContents"}

\* the .tab elements of the page, by position, each with its tab-content panel
Tabs == 1..MaxTabs

\* the tab that the markup gives the class 'active'
FirstTab == 1

\* no inline style: the style sheet decides
NoInlineStyle == [id \in StyledIds |-> ""]

LoadedPage(orders, items, invoices, invoiceItems, sponsoring, sponsoringItems, stock, clock) ==
    /\ ordersData = orders
    /\ itemsData = items
    /\ invoicesData = invoices
    /\ invoiceItemsData = invoiceItems
    /\ sponsoringData = sponsoring
    /\ sponsoringItemsData = sponsoringItems
    /\ stockData = stock
    /\ currentView = "orders"
    /\ selects = DefaultSelects
    /\ options = BuiltOptions(orders)
    /\ style = NoInlineStyle
    /\ dom = updateDisplay([id \in ElementIds |-> NotRendered],
                           orders, items, DefaultSelects)
    /\ activeTab = FirstTab
    /\ activeViewBtn = "orders"
    /\ now = clock

\* the dashboard, opened after a login that the session no longer records
LoadedStores(orders, items, invoices, invoiceItems, sponsoring, sponsoringItems, stock, clock) ==
    /\ LoadedPage(orders, items, invoices, invoiceItems, sponsoring, sponsoringItems,
                  stock, clock)
    /\ session = NoSession
    /\ location = "index.html"
    /\ errorShown = FALSE

Loaded(orders, items) ==
    LoadedStores(orders, items, FixedInvoices, FixedInvoiceItems, FixedSponsoring,
                 FixedSponsoringItems, FixedStock, StartOfClock)

Init ==
    \/ \E orders \in SeqsUpTo(FilterOrders, MaxOrders) : Loaded(orders, FixedItems)
    \/ \E orders \in SeqsUpTo(PaidOrders, MaxOrders) : Loaded(orders, FixedItems)
    \/ \E items \in SeqsUpTo(FilterItems, MaxItems) : Loaded(FixedOrders, items)

\* the options a select offers
CurrentOptions(id) ==
    IF id \in BuiltSelectIds THEN options[id] ELSE Options(id, << >>)

\* the change listener of a filter select: updateDisplay
FilterChange(id, v) ==
    /\ v \in CurrentOptions(id)
    /\ v # selects[id]
    /\ selects' = [selects EXCEPT ![id] = v]
    /\ dom' = updateDisplay(dom, getCurrentData(currentView),
                            getCurrentItems(currentView), selects')
    /\ UNCHANGED <<stores, currentView, options, style, activeTab, activeViewBtn, now>>
    /\ UNCHANGED authVars

\* the writes of the 'overdue' branch and of the overdueFilter listener
OverdueWrites(d, sel, withSummary) ==
    LET overdueInvoices == getOverdueInvoices(invoicesData, sponsoringData, sel, now)
    IN  [id \in ElementIds |->
            IF id = "overdueSummary" /\ withSummary
            THEN Rendered(OverdueSummary(invoicesData, sponsoringData, sel, now))
            ELSE IF id = "overdueTable"
            THEN Rendered(OverdueTable(overdueInvoices, sel, now))
            ELSE IF id = "overdueCount" THEN Rendered(Len(overdueInvoices))
            ELSE d[id]]

\* the writes of the 'stock' branch and of the stock filter listeners
StockWrites(d, sel, withSummary) ==
    LET filteredStock == getFilteredStock(stockData, sel)
    IN  [id \in ElementIds |->
            IF id = "stockSummary" /\ withSummary
            THEN Rendered(StockSummary(stockData))
            ELSE IF id = "stockTable" THEN Rendered(StockTable(filteredStock))
            ELSE IF id = "stockCount"
            THEN Rendered(StockCount(filteredStock, stockData))
            ELSE d[id]]

\* the write of generateMonthlySummary
SummaryWrites(d, selectedMonth) ==
    [d EXCEPT !["summaryContent"] =
        Rendered(generateMonthlySummary(ordersData, invoicesData, itemsData,
                                        selectedMonth))]

\* a listener whose normal branch shows the tab-content panels again
StyleOf_reset(st, newView) ==
    [id \in StyledIds |->
        IF newView = "overdue" /\ id = "overdueFilterGroup" THEN "flex"
        ELSE IF newView = "overdue" /\ id = "overdueSection" THEN "block"
        ELSE IF newView = "stock"
                /\ id \in {"stockBrandFilterGroup", "stockStatusFilterGroup"}
        THEN "flex"
        ELSE IF newView = "stock" /\ id = "stockSection" THEN "block"
        ELSE IF newView = "summary" /\ id = "summaryMonthFilterGroup" THEN "flex"
        ELSE IF newView = "summary" /\ id = "summarySection" THEN "block"
        ELSE IF id \in {"overdueFilterGroup", "overdueSection", "stockBrandFilterGroup",
                        "stockStatusFilterGroup", "stockSection",
                        "summaryMonthFilterGroup", "summarySection"}
        THEN "none"
        ELSE IF newView \in {"overdue", "stock", "summary"} THEN "none"
        ELSE IF id = "summaryCards" THEN "grid"
        ELSE IF id = "tabs" THEN "flex"
        ELSE IF id = "tabContents" THEN ""
        ELSE st[id]]

\* every special section and filter group hidden, then those of the view shown
StyleOf(st, newView) ==
    [id \in StyledIds |->
        IF newView = "overdue" /\ id = "overdueFilterGroup" THEN "flex"
        ELSE IF newView = "overdue" /\ id = "overdueSection" THEN "block"
        ELSE IF newView = "stock"
                /\ id \in {"stockBrandFilterGroup", "stockStatusFilterGroup"}
        THEN "flex"
        ELSE IF newView = "stock" /\ id = "stockSection" THEN "block"
        ELSE IF newView = "summary" /\ id = "summaryMonthFilterGroup" THEN "flex"
        ELSE IF newView = "summary" /\ id = "summarySection" THEN "block"
        ELSE IF id \in {"overdueFilterGroup", "overdueSection", "stockBrandFilterGroup",
                        "stockStatusFilterGroup", "stockSection",
                        "summaryMonthFilterGroup", "summarySection"}
        THEN "none"
        ELSE IF newView \in {"overdue", "stock", "summary"} THEN "none"
        ELSE IF id = "summaryCards" THEN "grid"
        ELSE IF id = "tabs" THEN "flex"
        ELSE st[id]]

\* the body of the click listener of a view button
SwitchView(newView) ==
    /\ currentView' = newView
    /\ activeViewBtn' = newView
    /\ style' = StyleOf(style, newView)
    /\ IF newView = "overdue"
       THEN /\ dom' = OverdueWrites(dom, selects, TRUE)
            /\ UNCHANGED <<selects, options>>
       ELSE IF newView = "stock"
       THEN /\ dom' = StockWrites(dom, selects, TRUE)
            /\ UNCHANGED <<selects, options>>
       ELSE IF newView = "summary"
       THEN /\ dom' = SummaryWrites(dom, selects["summaryMonthFilter"])
            /\ UNCHANGED <<selects, options>>
       ELSE IF \E o \in RangeOf(getCurrentData(newView)) : ~Has(o, "date")
       THEN \* initMonthFilter raises a TypeError
            UNCHANGED <<selects, options, dom>>
       ELSE /\ options' = BuiltOptions(getCurrentData(newView))
            /\ selects' = [id \in DOMAIN selects |->
                              IF id = "monthFilter" THEN ALL
                              ELSE IF id \in {"paymentFilter", "cityFilter"} THEN "all"
                              ELSE selects[id]]
            /\ dom' = updateDisplay(dom, getCurrentData(newView),
                                    getCurrentItems(newView), selects')
    /\ stockData' = IF newView = "stock" THEN stockDataAfterSort(stockData, selects)
                    ELSE stockData
    /\ UNCHANGED <<unsortedStores, activeTab, now>>
    /\ UNCHANGED authVars

\* a listener that switches to the view of the button whatever the view is
ViewClick_always(newView) == SwitchView(newView)

\* the click listener of a view button: if (newView !== currentView)
ViewClick(newView) ==
    IF newView # currentView THEN SwitchView(newView) ELSE UNCHANGED vars

\* a select in a group that is displayed none cannot be operated
Operable(group) == style[group] # "none"

\* the change listener of overdueFilter
OverdueFilterChange(v) ==
    /\ Operable("overdueFilterGroup")
    /\ v \in OverdueOptions
    /\ v # selects["overdueFilter"]
    /\ selects' = [selects EXCEPT !["overdueFilter"] = v]
    /\ dom' = IF currentView = "overdue" THEN OverdueWrites(dom, selects', FALSE)
              ELSE dom
    /\ UNCHANGED <<stores, currentView, options, style, activeTab, activeViewBtn, now>>
    /\ UNCHANGED authVars

\* the change listeners of stockBrandFilter and stockStatusFilter
StockFilterChange(id, v) ==
    /\ Operable(IF id = "stockBrandFilter" THEN "stockBrandFilterGroup"
                ELSE "stockStatusFilterGroup")
    /\ v \in (IF id = "stockBrandFilter" THEN StockBrandOptions ELSE StockStatusOptions)
    /\ v # selects[id]
    /\ selects' = [selects EXCEPT ![id] = v]
    /\ dom' = IF currentView = "stock" THEN StockWrites(dom, selects', FALSE)
              ELSE dom
    /\ stockData' = IF currentView = "stock" THEN stockDataAfterSort(stockData, selects')
                    ELSE stockData
    /\ UNCHANGED <<unsortedStores, currentView, options, style, activeTab,
                   activeViewBtn, now>>
    /\ UNCHANGED authVars

\* the change listener of summaryMonthFilter
SummaryMonthChange(v) ==
    /\ Operable("summaryMonthFilterGroup")
    /\ v \in SummaryMonthOptions
    /\ v # selects["summaryMonthFilter"]
    /\ selects' = [selects EXCEPT !["summaryMonthFilter"] = v]
    /\ dom' = IF currentView = "summary" THEN SummaryWrites(dom, v) ELSE dom
    /\ UNCHANGED <<stores, currentView, options, style, activeTab, activeViewBtn, now>>
    /\ UNCHANGED authVars

\* time passes
Tick ==
    /\ now < StartOfClock + MaxTicks
    /\ now' = now + 1
    /\ UNCHANGED <<stores, currentView, selects, options, style, dom, activeTab,
                   activeViewBtn>>
    /\ UNCHANGED authVars

\* the click listener of a tab: the class 'active' moves to the tab and to its
\* panel; no style and no table is written
TabClick(tab) ==
    /\ tab \in Tabs
    /\ activeTab' = tab
    /\ UNCHANGED <<stores, currentView, selects, options, style, dom, activeViewBtn, now>>
    /\ UNCHANGED authVars

\* the submit listener of the login form
Submit(username, password) ==
    /\ location = "login.html"
    /\ LET attempt == login(username, password, session, now)
       IN  /\ session' = attempt.store
           /\ IF attempt.result
              THEN location' = "index.html" /\ errorShown' = FALSE
              ELSE location' = location /\ errorShown' = TRUE
    /\ UNCHANGED <<pageVars, now>>

\* logout(), called from the dashboard
Logout ==
    /\ location = "index.html"
    /\ session' = logout(session)
    /\ location' = "login.html"
    /\ errorShown' = FALSE
    /\ UNCHANGED <<pageVars, now>>

\* a call of isAuthenticated()
CheckAuth ==
    /\ session' = isAuthenticated(session, now).store
    /\ UNCHANGED <<pageVars, now, location, errorShown>>

\* an hour passes
Hour ==
    /\ now < StartOfClock + MaxHours * TicksPerHour
    /\ now' = now + TicksPerHour
    /\ UNCHANGED <<pageVars, authVars>>

\* the events of the sales views
Next ==
    \E id \in SelectIds : \E v \in CurrentOptions(id) : FilterChange(id, v)

Spec == Init /\ [][Next]_vars

\* the page loaded with orders of every channel
InitAgg == \E orders \in SeqsUpTo(ChannelOrders, MaxOrders) : Loaded(orders, FixedItems)

SpecAgg == InitAgg /\ [][Next]_vars

\* the page loaded with B2B orders of several salespersons
InitB2B ==
    \E orders \in SeqsUpTo(SalespersonOrders, MaxOrders) : Loaded(orders, FixedItems)

SpecB2B == InitB2B /\ [][Next]_vars

\* the page loaded with orders that lack the channel, or with line items that
\* lack the date
InitMalformed ==
    \/ \E orders \in SeqsUpTo({Without(FixedOrders[1], "channel")}, MaxOrders) :
          Loaded(orders, FixedItems)
    \/ \E items \in SeqsUpTo({Without(FixedItems[1], "date")}, MaxItems) :
          Loaded(FixedOrders, items)

SpecMalformed == InitMalformed /\ [][Next]_vars

\* the page loaded with customers and products of equal totals
InitTop ==
    \/ \E orders \in SeqsUpTo(CompanyOrders, MaxOrders) : Loaded(orders, FixedItems)
    \/ \E items \in SeqsUpTo(ProductItems, MaxItems) : Loaded(FixedOrders, items)
    \/ Loaded(ManyOrders, FixedItems)

SpecTop == InitTop /\ [][Next]_vars

\* the page loaded with orders that reach the tiers of the plan
InitPlan == \E orders \in SeqsUpTo(PlanOrders, MaxOrders) : Loaded(orders, FixedItems)

SpecPlan == InitPlan /\ [][Next]_vars

\* the page loaded with a credit note or an order outside the plan
InitRefund ==
    \E orders \in SeqsUpTo(RefundOrders, MaxOrders) : Loaded(orders, FixedItems)

SpecRefund == InitRefund /\ [][Next]_vars

\* the page loaded with line items of every product name
InitBrand ==
    \E items \in SeqsUpTo(BrandItems, MaxBrandItems) : Loaded(FixedOrders, items)

SpecBrand == InitBrand /\ [][Next]_vars

\* the page loaded with orders of customers in CZK and in EUR
InitCustomers ==
    \E orders \in SeqsUpTo(CustomerOrders, MaxOrders) : Loaded(orders, FixedItems)

SpecCustomers == InitCustomers /\ [][Next]_vars

\* the page loaded with stock items; the user switches between the orders and
\* the stock view and operates the stock filters
InitStock ==
    \E stock \in SeqsUpTo(StockItems, MaxStock) :
        LoadedStores(FixedOrders, FixedItems, FixedInvoices, FixedInvoiceItems,
                     FixedSponsoring, FixedSponsoringItems, stock, StartOfClock)

NextStock ==
    \/ \E v \in {"orders", "stock"} : ViewClick(v)
    \/ \E id \in {"stockBrandFilter", "stockStatusFilter"} :
         \E v \in StockBrandOptions \cup StockStatusOptions : StockFilterChange(id, v)

SpecStock == InitStock /\ [][NextStock]_vars

\* the page loaded with invoices; the user switches between the orders and
\* the overdue view and operates the overdue filter while time passes
InitOverdue ==
    \E invoices \in SeqsUpTo(DueInvoices, MaxInvoices) :
        LoadedStores(FixedOrders, FixedItems, invoices, FixedInvoiceItems,
                     FixedSponsoring, FixedSponsoringItems, FixedStock, StartOfClock)

NextOverdue ==
    \/ \E v \in {"orders", "overdue"} : ViewClick(v)
    \/ \E v \in OverdueOptions : OverdueFilterChange(v)
    \/ Tick

SpecOverdue == InitOverdue /\ [][NextOverdue]_vars

\* the page loaded with orders of March and April; the user switches views and
\* selects the month of the summary
InitSummary ==
    \E orders \in SeqsUpTo(SummaryOrders, MaxOrders) :
        LoadedStores(orders, FixedItems, FixedInvoices, FixedInvoiceItems,
                     FixedSponsoring, FixedSponsoringItems, FixedStock, StartOfClock)

NextSummary ==
    \/ \E v \in Views : ViewClick(v)
    \/ \E v \in SummaryMonthOptions : SummaryMonthChange(v)

SpecSummary == InitSummary /\ [][NextSummary]_vars

\* orders of March 2025 that meet the plan of a market (2167710 CZK, 11659 EUR),
\* reach 90 % of it, or are small, by e-shop and by B2B
ExecOrders ==
    {[date |-> D_2025_03_15, currency |-> "CZK", channel |-> ESHOP_ENERVIT_CZ,
      total_czk |-> 2167710, total_czk_bez_dph |-> 1791496],
     [date |-> D_2025_03_15, currency |-> "CZK", channel |-> B2B, company |-> K_ALFA,
      total_czk |-> 1950939, total_czk_bez_dph |-> 1612346],
     [date |-> D_2025_03_20, currency |-> "EUR", channel |-> ESHOP_ROYALBAY_SK,
      total_eur |-> 11659, total_eur_bez_dph |-> 9635],
     [date |-> D_2025_03_20, currency |-> "EUR", channel |-> B2B, company |-> K_ALFA,
      total_eur |-> 10494, total_eur_bez_dph |-> 8672],
     [date |-> D_2025_03_15, currency |-> "CZK", channel |-> B2B, company |-> K_ALFA,
      total_czk |-> 150, total_czk_bez_dph |-> 124],
     [date |-> D_2025_03_15, currency |-> "CZK", channel |-> ESHOP_ENERVIT_CZ,
      total_czk |-> 100, total_czk_bez_dph |-> 83]}

\* the page loaded with such orders; the user opens the summary and selects
\* the month
InitExec ==
    \E orders \in SeqsUpTo(ExecOrders, MaxOrders) :
        LoadedStores(orders, FixedItems, FixedInvoices, FixedInvoiceItems,
                     FixedSponsoring, FixedSponsoringItems, FixedStock, StartOfClock)

NextExec ==
    \/ \E v \in {"orders", "summary"} : ViewClick(v)
    \/ \E v \in SummaryMonthOptions : SummaryMonthChange(v)

SpecExec == InitExec /\ [][NextExec]_vars

\* B2B orders of a roster salesperson, of an outsider and of a salesperson
\* whose name is the name of the total key
TotalKeyOrders ==
    {[date |-> D_2025_03_15, currency |-> "CZK", channel |-> B2B,
      salesperson |-> "Karolina", total_czk |-> 121, total_czk_bez_dph |-> 100],
     [date |-> D_2025_03_20, currency |-> "CZK", channel |-> B2B,
      salesperson |-> "Novak", total_czk |-> 363, total_czk_bez_dph |-> 300],
     [date |-> D_2025_03_20, currency |-> "CZK", channel |-> B2B,
      salesperson |-> "total", total_czk |-> 242, total_czk_bez_dph |-> 200]}

InitTotalKey ==
    \E orders \in SeqsUpTo(TotalKeyOrders, MaxOrders) : Loaded(orders, FixedItems)

SpecTotalKey == InitTotalKey /\ [][Next]_vars

\* what the user types into the login form
TypedUsernames ==
    {<<"a","d","m","i","n">>, <<" ","A","d","m","i","n"," ">>, <<"A","D","M","I","N">>,
     <<"K","A","R","O","L","I","N","A",".","C","A","L","D","A">>, <<"n","o","b","o","d","y">>, << >>}

TypedPasswords == {"EnervitBoss2025!", "enervitboss2025!", "SprintKral1ca#", ""}

\* the login page, opened in a tab whose session store is empty, holds a text
\* that is not JSON, or holds the session of a login at the start of the clock
InitAuth ==
    /\ LoadedPage(FixedOrders, FixedItems, FixedInvoices, FixedInvoiceItems,
                  FixedSponsoring, FixedSponsoringItems, FixedStock, StartOfClock)
    /\ session \in {NoSession, NotJSON,
                    Stored([username |-> <<"k","a","r","o","l","i","n","a",".","c","a","l","d","a">>, timestamp |-> StartOfClock])}
    /\ location = "login.html"
    /\ errorShown = FALSE

NextAuth ==
    \/ \E username \in TypedUsernames : \E password \in TypedPasswords :
          Submit(username, password)
    \/ Logout
    \/ CheckAuth
    \/ Hour

SpecAuth == InitAuth /\ [][NextAuth]_vars

\* orders whose two amounts are unrelated, and orders that lack one of them
VatOrders ==
    {[date |-> D_2025_03_15, currency |-> "CZK", channel |-> ESHOP_ENERVIT_CZ,
      total_czk |-> 121, total_czk_bez_dph |-> 90],
     [date |-> D_2025_03_20, currency |-> "CZK", channel |-> B2B, company |-> K_ALFA,
      total_czk |-> 242],
     [date |-> D_2025_04_01, currency |-> "EUR", channel |-> ESHOP_ROYALBAY_SK,
      total_eur_bez_dph |-> 10],
     [date |-> D_2025_04_02, currency |-> "EUR", channel |-> B2B,
      total_eur |-> 24, total_eur_bez_dph |-> 23]}

InitVat == \E orders \in SeqsUpTo(VatOrders, MaxOrders) : Loaded(orders, FixedItems)

SpecVat == InitVat /\ [][Next]_vars

\* the page loaded with invoices and stock items that the stores hold in another
\* order than the tables show; the user operates a control of every listener
SessionInvoices ==
    << CHOOSE i \in DueInvoices : i.invoice_number = 1,
       CHOOSE i \in DueInvoices : i.invoice_number = 2 >>

SessionStock ==
    << CHOOSE item \in StockItems : item.code = 7,
       CHOOSE item \in StockItems : item.code = 2 >>

InitSession ==
    LoadedStores(FixedOrders, FixedItems, SessionInvoices, FixedInvoiceItems,
                 FixedSponsoring, FixedSponsoringItems, SessionStock, StartOfClock)

\* one select of each listener, two values of each select
NextSession ==
    \/ \E v \in VatOptions : FilterChange("vatFilter", v)
    \/ \E v \in Views : ViewClick(v)
    \/ \E v \in {"all", "15-30"} : OverdueFilterChange(v)
    \/ \E v \in {"all", "ENERVIT"} : StockFilterChange("stockBrandFilter", v)
    \/ \E v \in {M_2025_04, M_2025_11} : SummaryMonthChange(v)
    \/ \E tab \in Tabs : TabClick(tab)

SpecSession == InitSession /\ [][NextSession]_vars

\* the page of a session; the user clicks view buttons while time passes
NextSwitch ==
    \/ \E v \in Views : ViewClick(v)
    \/ Tick

SpecSwitch == InitSession /\ [][NextSwitch]_vars

----------------------------------------------------------------------------
(* Properties of the filter engine.                                        *)

FilteredOrders == getFilteredOrders(ordersData, selects)

FilteredItems == getFilteredItems(itemsData, selects)

\* the elements of s at the indices of I, in the order of s
SubseqAt(s, I) ==
    LET f[i \in 0..Len(s)] ==
            IF i = 0 THEN << >>
            ELSE IF i \in I THEN Append(f[i - 1], s[i]) ELSE f[i - 1]
    IN  f[Len(s)]

IsSubsequence(r, s) == \E I \in SUBSET (1..Len(s)) : r = SubseqAt(s, I)

\* C2: filtering is idempotent: the order filter and the line-item filter,
\* applied with the same criteria to their own result, return that result
C2_FilterIdempotent ==
    /\ ~FilteredOrders.threw
    /\ getFilteredOrders(FilteredOrders.value, selects) = FilteredOrders
    /\ ~FilteredItems.threw
    /\ getFilteredItems(FilteredItems.value, selects) = FilteredItems

\* a criterion is set, the filter dropped an order and kept another, and the
\* order list shows the result
C2_Witness ==
    /\ selects["marketFilter"] # "all"
    /\ Len(FilteredOrders.value) > 0
    /\ Len(FilteredOrders.value) < Len(ordersData)
    /\ dom["ordersTable"].value = FilteredOrders.value

\* C3: the filter result is a sub-sequence of the store: input records only,
\* each position at most once, in the order of the input
C3_FilterIsSubsequence ==
    /\ ~FilteredOrders.threw
    /\ IsSubsequence(FilteredOrders.value, ordersData)
    /\ ~FilteredItems.threw
    /\ IsSubsequence(FilteredItems.value, itemsData)

\* two different orders passed a criterion and are shown in store order
C3_Witness ==
    /\ selects["channelFilter"] = "B2B"
    /\ Len(FilteredOrders.value) = 2
    /\ FilteredOrders.value[1] # FilteredOrders.value[2]
    /\ dom["ordersTable"].value = ordersData

\* the criteria of the order filter, as one conjunction
Satisfies(order, sel) ==
    /\ sel["monthFilter"] # ALL => SubSeq(order["date"], 1, 7) = sel["monthFilter"]
    /\ sel["marketFilter"] = "CZ" => order["currency"] # "EUR"
    /\ sel["marketFilter"] = "SK" => order["currency"] = "EUR"
    /\ sel["channelFilter"] = "ESHOP_ENERVIT" => includes(order["channel"], S_ENERVIT)
    /\ sel["channelFilter"] = "ESHOP_ROYALBAY" => includes(order["channel"], S_ROYALBAY)
    /\ sel["channelFilter"] = "B2B" => order["channel"] = B2B
    /\ sel["salespersonFilter"] # "all" =>
            Has(order, "salesperson") /\ order["salesperson"] = sel["salespersonFilter"]
    /\ sel["paymentFilter"] # "all" =>
            Has(order, "payment_type") /\ order["payment_type"] = sel["paymentFilter"]
    /\ sel["cityFilter"] # "all" =>
            Has(order, "city") /\ order["city"] = sel["cityFilter"]

\* C4: getFilteredOrders keeps an order if and only if the order satisfies
\* every criterion that is not "all"
C4_KeepsExactlyTheMatching ==
    /\ ~FilteredOrders.threw
    /\ FilteredOrders.value =
          SelectSeq(ordersData, LAMBDA order : Satisfies(order, selects))

\* a payment and a city criterion are set together; one order passes both
\* and another order fails
C4_Witness ==
    /\ selects["paymentFilter"] # "all"
    /\ selects["cityFilter"] # "all"
    /\ Len(FilteredOrders.value) = 1
    /\ Len(ordersData) = 2
    /\ dom["ordersTable"].value = FilteredOrders.value

PaymentValues == {"all", "card", "cash"}

CityValues == {"all", "Praha", "Brno"}

\* C6: the result of getFilteredItems is the same for every value of the
\* payment-type and city criteria, and that of getFilteredOrders is not
C6_ItemsIgnorePaymentAndCity ==
    /\ \A p \in PaymentValues : \A c \in CityValues :
          getFilteredItems(itemsData,
                           [selects EXCEPT !["paymentFilter"] = p,
                                           !["cityFilter"] = c])
            = getFilteredItems(itemsData,
                               [selects EXCEPT !["paymentFilter"] = "all",
                                               !["cityFilter"] = "all"])
    /\ \E orders \in SeqsUpTo(PaidOrders, 1) : \E p \in PaymentValues :
          getFilteredOrders(orders, [DefaultSelects EXCEPT !["paymentFilter"] = p])
            # getFilteredOrders(orders, DefaultSelects)

\* a payment criterion that removes every order of the store leaves the line
\* items in the top-10 products table
C6_Witness ==
    /\ selects["paymentFilter"] # "all"
    /\ selects["cityFilter"] # "all"
    /\ ordersData # << >>
    /\ FilteredOrders.value = << >>
    /\ FilteredItems.value = itemsData
    /\ Len(dom["top10ProductsTable"].value) = 1

----------------------------------------------------------------------------
(* Properties of the aggregator.                                           *)

MonthOf(r) == SubSeq(r["date"], 1, 7)

IndicesOf(s, P(_)) == {i \in 1..Len(s) : P(s[i])}

\* czk_total + eur_total * 25 of the item, in the VAT mode of the state
CzkPlus25Eur(item) ==
    (IF selects["vatFilter"] = "without_vat"
     THEN FieldOrZero(item, "total_czk_bez_dph") ELSE FieldOrZero(item, "total_czk"))
    + 25 * (IF selects["vatFilter"] = "without_vat"
            THEN FieldOrZero(item, "total_eur_bez_dph")
            ELSE FieldOrZero(item, "total_eur"))

BrandData == aggregateByBrand(itemsData, selects)

\* C9: aggregateByBrand adds czk_total + eur_total * 25 of every item to
\* exactly one brand of the item's month: each brand holds the sum over its
\* items, total == ENERVIT + ROYALBAY + VITAR, and total is the sum over the
\* month's items
C9_BrandTotals ==
    LET brandData == BrandData
    IN
    /\ ~brandData.threw
    /\ DOMAIN brandData.value = {MonthOf(itemsData[i]) : i \in 1..Len(itemsData)}
    /\ \A m \in DOMAIN brandData.value :
          LET data == brandData.value[m]
              amounts == [i \in 1..Len(itemsData) |-> CzkPlus25Eur(itemsData[i])]
              ofBrand(b) == IndicesOf(itemsData,
                                LAMBDA x : MonthOf(x) = m /\ classifyBrand(x) = b)
          IN  /\ DOMAIN data = {"ENERVIT", "ROYALBAY", "VITAR", "total"}
              /\ \A b \in {"ENERVIT", "ROYALBAY", "VITAR"} :
                    data[b] = SumFn(amounts, ofBrand(b))
              /\ data.total = data.ENERVIT + data.ROYALBAY + data.VITAR
              /\ data.total = SumFn(amounts,
                                    IndicesOf(itemsData, LAMBDA x : MonthOf(x) = m))

\* the brand table shows a month with an item that carries a CZK and an EUR
\* amount, and a second item of another brand
C9_Witness ==
    /\ dom["brandTable"].written
    /\ selects["vatFilter"] = "without_vat"
    /\ \E m \in DOMAIN dom["brandTable"].value.rows :
          LET data == dom["brandTable"].value.rows[m]
          IN  /\ data.ROYALBAY = 100 + 25 * 10
              /\ data.VITAR > 0
              /\ data.total = data.ROYALBAY + data.VITAR

MonthlyData == aggregateByMonth(FilteredOrders.value, selects)

\* the months of the records of R
MonthsOf(R) == {MonthOf(R[i]) : i \in 1..Len(R)}

\* C1: the three CZK buckets of aggregateByMonth, summed over the months, equal
\* calculateSummary's totalCZK, and the three EUR buckets equal its totalEUR
C1_MonthsReconcileWithSummary ==
    LET summary == calculateSummary(FilteredOrders.value, selects)
        months == MonthlyData.value
        czk == [m \in DOMAIN months |->
                   months[m].ESHOP_ENERVIT_CZ.czk + months[m].ESHOP_ROYALBAY_CZ.czk
                   + months[m].B2B_CZ.czk]
        eur == [m \in DOMAIN months |->
                   months[m].ESHOP_ENERVIT_SK.eur + months[m].ESHOP_ROYALBAY_SK.eur
                   + months[m].B2B_SK.eur]
    IN  /\ ~MonthlyData.threw
        /\ SumFn(czk, DOMAIN months) = summary.totalCZK
        /\ SumFn(eur, DOMAIN months) = summary.totalEUR

KnownChannels ==
    {ESHOP_ENERVIT_CZ, ESHOP_ENERVIT_SK, ESHOP_ROYALBAY_CZ, ESHOP_ROYALBAY_SK, B2B}

\* the bucket the claim assigns to an order, "none" for an unknown channel
BucketOf(order) ==
    IF ~Has(order, "channel") THEN "none"
    ELSE IF order["channel"] = ESHOP_ENERVIT_CZ THEN "ESHOP_ENERVIT_CZ"
    ELSE IF order["channel"] = ESHOP_ENERVIT_SK THEN "ESHOP_ENERVIT_SK"
    ELSE IF order["channel"] = ESHOP_ROYALBAY_CZ THEN "ESHOP_ROYALBAY_CZ"
    ELSE IF order["channel"] = ESHOP_ROYALBAY_SK THEN "ESHOP_ROYALBAY_SK"
    ELSE IF order["channel"] = B2B
         THEN IF order["currency"] = "EUR" THEN "B2B_SK" ELSE "B2B_CZ"
    ELSE "none"

CzkBuckets == {"ESHOP_ENERVIT_CZ", "ESHOP_ROYALBAY_CZ", "B2B_CZ"}

EurBuckets == {"ESHOP_ENERVIT_SK", "ESHOP_ROYALBAY_SK", "B2B_SK"}

\* the amount of the order in the VAT mode of the state
AmountIn(order, cur) ==
    IF cur = "EUR"
    THEN IF selects["vatFilter"] = "without_vat"
         THEN FieldOrZero(order, "total_eur_bez_dph") ELSE FieldOrZero(order, "total_eur")
    ELSE IF selects["vatFilter"] = "without_vat"
         THEN FieldOrZero(order, "total_czk_bez_dph") ELSE FieldOrZero(order, "total_czk")

\* C7: aggregateByMonth counts every record once in the totalCount of its
\* month and adds it to the bucket of its channel only, a B2B record to B2B_SK
\* (EUR amount) when its currency is EUR and to B2B_CZ (CZK amount) otherwise;
\* the six bucket counts sum to at most totalCount, and to totalCount exactly
\* when every record of the month has a known channel
C7_MonthBuckets ==
    LET R == FilteredOrders.value
        months == MonthlyData.value
    IN  /\ ~MonthlyData.threw
        /\ DOMAIN months = MonthsOf(R)
        /\ \A m \in DOMAIN months :
              LET inMonth == IndicesOf(R, LAMBDA o : MonthOf(o) = m)
                  inBucket(b) == {i \in inMonth : BucketOf(R[i]) = b}
                  counts == [b \in CzkBuckets \cup EurBuckets |-> months[m][b].count]
                  sum == SumFn(counts, CzkBuckets \cup EurBuckets)
              IN  /\ months[m].totalCount = Cardinality(inMonth)
                  /\ \A b \in CzkBuckets :
                        /\ months[m][b].count = Cardinality(inBucket(b))
                        /\ months[m][b].czk =
                              SumFn([i \in 1..Len(R) |-> AmountIn(R[i], "CZK")],
                                    inBucket(b))
                  /\ \A b \in EurBuckets :
                        /\ months[m][b].count = Cardinality(inBucket(b))
                        /\ months[m][b].eur =
                              SumFn([i \in 1..Len(R) |-> AmountIn(R[i], "EUR")],
                                    inBucket(b))
                  /\ sum <= months[m].totalCount
                  /\ (sum = months[m].totalCount)
                        <=> \A i \in inMonth : R[i]["channel"] \in KnownChannels

\* the monthly table shows a month with a B2B order in EUR, counted as SK,
\* and an order of an unknown channel, counted in totalCount only
C7_Witness ==
    /\ dom["monthlyTable"].written
    /\ selects["vatFilter"] = "without_vat"
    /\ M_2025_03 \in DOMAIN dom["monthlyTable"].value
    /\ LET data == dom["monthlyTable"].value[M_2025_03]
       IN  /\ data.B2B_SK = [eur |-> 30, count |-> 1]
           /\ data.B2B_CZ.count = 0
           /\ data.ESHOP_ENERVIT_CZ.count = 0
           /\ data.ESHOP_ENERVIT_SK.count = 0
           /\ data.ESHOP_ROYALBAY_CZ.count = 0
           /\ data.ESHOP_ROYALBAY_SK.count = 0
           /\ data.totalCount = 2

B2BData == aggregateB2BBySalesperson(FilteredOrders.value, selects)

Roster == {"Karolina", "Jirka", "Stepan", "VITAR Sport"}

\* the key of the claim for an order: its salesperson, "VITAR Sport" for none
KeyOfSalesperson(order) ==
    IF Has(order, "salesperson") THEN order["salesperson"] ELSE "VITAR Sport"

\* C8: aggregateB2BBySalesperson counts exactly the orders with channel B2B and
\* a currency other than EUR: each adds its CZK amount to the key of its
\* salesperson in its month, "VITAR Sport" when it has none and a key of its
\* own for a salesperson outside the roster; other orders change nothing
C8_B2BBySalesperson ==
    LET R == FilteredOrders.value
        counted == IndicesOf(R, LAMBDA o : o["channel"] = B2B /\ o["currency"] # "EUR")
        months == B2BData.value
        amounts == [i \in 1..Len(R) |-> AmountIn(R[i], "CZK")]
    IN  /\ ~B2BData.threw
        /\ DOMAIN months = {MonthOf(R[i]) : i \in counted}
        /\ \A m \in DOMAIN months :
              LET inMonth == {i \in counted : MonthOf(R[i]) = m}
              IN  /\ DOMAIN months[m] =
                        Roster \cup {"total"}
                        \cup {KeyOfSalesperson(R[i]) : i \in inMonth}
                  /\ \A k \in DOMAIN months[m] \ {"total"} :
                        months[m][k] =
                            SumFn(amounts, {i \in inMonth : KeyOfSalesperson(R[i]) = k})

\* the B2B table data hold a month with an order of nobody under "VITAR Sport"
\* and a month with the key of an outsider, next to an order that is not counted
C8_Witness ==
    /\ dom["b2bTable"].written
    /\ selects["marketFilter"] = "CZ"
    /\ \E i \in 1..Len(ordersData) : ~IsB2BCZ(ordersData[i])
    /\ \E m \in DOMAIN B2BData.value :
          \/ B2BData.value[m]["VITAR Sport"] = 242
          \/ /\ "Novak" \in DOMAIN B2BData.value[m]
             /\ B2BData.value[m]["Novak"] = 363

----------------------------------------------------------------------------
(* Properties of the filters on records that lack a field.                 *)

\* C5: the filters have no error conditions: for every criteria and every
\* record, one without channel or date included, both filters return, and a
\* record that lacks the field a set criterion checks is not in the result
C5_FilterHasNoErrorConditions ==
    /\ ~FilteredOrders.threw
    /\ ~FilteredItems.threw
    /\ selects["channelFilter"] # "all" =>
          /\ \A i \in 1..Len(FilteredOrders.value) :
                Has(FilteredOrders.value[i], "channel")
          /\ \A i \in 1..Len(FilteredItems.value) :
                Has(FilteredItems.value[i], "channel")
    /\ selects["monthFilter"] # ALL =>
          \A i \in 1..Len(FilteredItems.value) : Has(FilteredItems.value[i], "date")

----------------------------------------------------------------------------
(* Properties of the top-10 reducers.                                      *)

\* the index at which the key is first met in the input
FirstSeen(key, R, keyOf(_)) ==
    CHOOSE i \in 1..Len(R) :
        /\ keyOf(R[i]) = key
        /\ \A j \in 1..(i - 1) : keyOf(R[j]) # key

\* at most N rows, by total descending, equal totals in the order in which
\* their keys were first met in R
IsTopOf(rows, R, keyOf(_), rowKey(_)) ==
    /\ Len(rows) <= TopN
    /\ \A i, j \in 1..Len(rows) :
          i < j =>
            /\ rows[i].total >= rows[j].total
            /\ rows[i].total = rows[j].total =>
                  FirstSeen(rowKey(rows[i]), R, keyOf)
                    < FirstSeen(rowKey(rows[j]), R, keyOf)

\* the grouping key of a row of the products table
ProductRowKey(row) ==
    IF Has(row, "code") /\ row["code"] # << >> THEN row["code"]
    ELSE IF Has(row, "name") THEN row["name"]
    ELSE UNDEFINED

\* C10: the top-customers and the top-products reducer return at most 10
\* entries, by total descending, and entries of equal total in the order in
\* which their key was first met in the input, keys that look like integers
\* included
C10_TopTenInEncounterOrder ==
    /\ IsTopOf(Top10Customers(FilteredOrders.value, selects), FilteredOrders.value,
               CompanyOf, LAMBDA row : row.name)
    /\ IsTopOf(Top10Products(FilteredItems.value, selects), FilteredItems.value,
               ProductKey, ProductRowKey)

\* the value of an order in CZK terms, an amount in EUR at the rate of the
\* brand aggregator
CzkEquivalent(order) ==
    IF order["currency"] = "EUR" THEN 25 * AmountIn(order, "EUR")
    ELSE AmountIn(order, "CZK")

\* the label of the claim for an order: its company, "Neznamy" for none
LabelOf(order) == IF Has(order, "company") THEN order["company"] ELSE NEZNAMY

\* C11: the top-customers reducer groups the orders by company, those without
\* a company under "Neznamy", and the total of a group is the sum of the
\* values of its orders in CZK terms, an order in EUR included
C11_CustomerTotals ==
    LET R == FilteredOrders.value
        customers == CustomersObject(R, selects)
        values == [i \in 1..Len(R) |-> CzkEquivalent(R[i])]
    IN  /\ RangeOf(ObjectKeys(customers)) = {LabelOf(R[i]) : i \in 1..Len(R)}
        /\ \A k \in {LabelOf(R[i]) : i \in 1..Len(R)} :
              /\ customers.val[k].count =
                    Cardinality(IndicesOf(R, LAMBDA o : LabelOf(o) = k))
              /\ customers.val[k].total =
                    SumFn(values, IndicesOf(R, LAMBDA o : LabelOf(o) = k))

----------------------------------------------------------------------------
(* Properties of the plan comparison.                                      *)

Cell(plan, actual, percent) == [plan |-> plan, actual |-> actual, percent |-> percent]

\* the plan, actual and percent of every monthly row the page shows
MonthlyCells ==
    {Cell(r.plan, r.actual, r.percent) :
        r \in {dom["planCZTable"].value.rows[m] : m \in PlanMonths}
              \cup {dom["planSKTable"].value.rows[m] : m \in PlanMonths}
              \cup {dom["planB2BTable"].value.rows[m][c] :
                        m \in PlanMonths, c \in SalespersonColumns}}

\* the plan, actual and percent of every totals row the page shows
TotalsCells ==
    {Cell(t.totalPlan, t.totalActual, t.totalPercent) :
        t \in {dom["planCZTable"].value.totals, dom["planSKTable"].value.totals}}
    \cup {Cell(t.plan, t.actual, t.percent) :
            t \in {dom["planB2BTable"].value.totals[c] : c \in SalespersonColumns}}

\* the plan, actual and percent of the two summary cards
CardCells ==
    LET cards == dom["summaryCards"].value
    IN  {Cell(cards.plan.planCZK, cards.summary.totalCZK, cards.percentCZK),
         Cell(cards.plan.planEUR, cards.summary.totalEUR, cards.percentEUR)}

\* percent is actual / plan * 100, and 0 for a plan of 0
IsPercentOf(c) ==
    /\ c.plan # 0 => c.percent.num = c.actual * 100 /\ c.percent.den = c.plan
    /\ c.plan = 0 => c.percent.num = 0
    /\ c.percent.den > 0

\* C12: in the CZ, SK and B2B plan rows, their totals rows and the summary
\* cards, percent is actual / plan * 100 for a plan other than 0, exactly 0
\* for a plan of 0, and never negative
C12_PercentNeverNegative ==
    \A c \in MonthlyCells \cup TotalsCells \cup CardCells :
        IsPercentOf(c) /\ c.percent.num >= 0

\* percent >= k, by cross-multiplication
PercentAtLeast(percent, k) == percent.num >= k * percent.den

\* the tier of the claim
TierOf(percent) ==
    IF PercentAtLeast(percent, 90) THEN "good"
    ELSE IF PercentAtLeast(percent, 70) /\ ~PercentAtLeast(percent, 90) THEN "warning"
    ELSE "bad"

\* the diff class of the claim
SignOf(diff) ==
    CASE diff > 0 -> "positive"
      [] diff < 0 -> "negative"
      [] diff = 0 -> "neutral"

C14_TotalsFromSums ==
    /\ \A id \in {"planCZTable", "planSKTable"} :
          LET rows == dom[id].value.rows
              t == dom[id].value.totals
          IN  /\ t.totalPlan = SumFn([m \in PlanMonths |-> rows[m].plan], PlanMonths)
              /\ t.totalActual =
                    SumFn([m \in PlanMonths |-> rows[m].actual], PlanMonths)
              /\ t.totalDiff = t.totalActual - t.totalPlan
              /\ t.totalPercent = [num |-> t.totalActual * 100, den |-> t.totalPlan]
    /\ \A c \in SalespersonColumns :
          LET rows == dom["planB2BTable"].value.rows
              t == dom["planB2BTable"].value.totals[c]
          IN  /\ t.plan = SumFn([m \in PlanMonths |-> rows[m][c].plan], PlanMonths)
              /\ t.actual = SumFn([m \in PlanMonths |-> rows[m][c].actual], PlanMonths)
              /\ t.percent = [num |-> t.actual * 100, den |-> t.plan]

\* the CZ plan table shows actuals in two months, one of them at 100 % and
\* the other at 90 %, and a totals row of both
C14_Witness ==
    /\ selects # DefaultSelects
    /\ selects["vatFilter"] = "with_vat"
    /\ dom["planCZTable"].value.rows[M_2025_03].actual = 1950939
    /\ dom["planCZTable"].value.rows[M_2025_04].diffClass = "neutral"
    /\ dom["planCZTable"].value.totals.totalActual = 1950939 + 2785390
    /\ dom["planCZTable"].value.totals.totalProgressClass = "bad"

\* the store holds the one order of the example scenario, prices with VAT
ExampleScenario ==
    /\ ordersData = <<ExampleOrder>>
    /\ selects["vatFilter"] = "with_vat"

\* the percent rounded to hundredths of a percent
Hundredths(percent) == (percent.num * 100 + percent.den \div 2) \div percent.den

\* Karolina's percent of 2025-03 is 10000 / 980483 * 100, about 1.02
ExamplePercent ==
    LET percent == dom["planB2BTable"].value.rows[M_2025_03].karolina.percent
    IN  /\ planData[M_2025_03].karolina = 980483
        /\ percent = [num |-> 10000 * 100, den |-> 980483]
        /\ Hundredths(percent) = 102

\* C18: for the one order {2025-03-15, CZK, B2B, Karolina, total_czk 10000}
\* aggregateB2BBySalesperson yields the single month 2025-03 with Karolina
\* 10000, total 10000 and 0 for the other names of the roster, and the B2B plan
\* comparison yields Karolina's percent 10000 / 980483 * 100, about 1.02
C18_ExampleScenario ==
    ExampleScenario =>
        LET b2bData == aggregateB2BBySalesperson(ordersData, selects)
        IN  /\ ~b2bData.threw
            /\ DOMAIN b2bData.value = {M_2025_03}
            /\ b2bData.value[M_2025_03] =
                  [k \in Roster \cup {"total"} |->
                      IF k \in {"Karolina", "total"} THEN 10000 ELSE 0]
            /\ ExamplePercent

\* C18 as worded: the month 2025-03 maps to {Karolina: 10000, total: 10000}
\* and nothing else
C18_ExampleAsWorded ==
    ExampleScenario =>
        LET b2bData == aggregateB2BBySalesperson(ordersData, selects)
        IN  /\ ~b2bData.threw
            /\ DOMAIN b2bData.value = {M_2025_03}
            /\ b2bData.value[M_2025_03] = [Karolina |-> 10000, total |-> 10000]
            /\ ExamplePercent

\* the example order is the store, a filter was changed and the B2B plan
\* table shows Karolina's 10000 in 2025-03
C18_Witness ==
    /\ ExampleScenario
    /\ selects["salespersonFilter"] = "Karolina"
    /\ dom["planB2BTable"].value.rows[M_2025_03].karolina.actual = 10000
    /\ dom["b2bTable"].value.rows[M_2025_03]["Karolina"] = 10000

----------------------------------------------------------------------------
(* Properties of the brand classification.                                 *)

\* sub occurs in s at some offset
Occurs(sub, s) ==
    \E off \in 0..(Len(s) - Len(sub)) : \A j \in 1..Len(sub) : s[off + j] = sub[j]

\* the upper-cased name holds a keyword of ENERVIT
HasEnervitKeyword(upper) ==
    \/ \E kw \in EnervitKeywords : Occurs(kw, upper)
    \/ Occurs(S_GEL_PAREN, upper) /\ Occurs(S_ML_PAREN, upper)

\* the upper-cased name holds a keyword of ROYALBAY
HasRoyalbayKeyword(upper) == Occurs(S_ROYAL_BAY, upper) \/ Occurs(S_ROYALBAY, upper)

\* the name of the item, empty for an item without one
NameOf(item) == IF Has(item, "product_name") THEN item["product_name"] ELSE << >>

\* C19: classifyBrand maps every product name, a missing or empty one
\* included, to one of ENERVIT, ROYALBAY, VITAR: ENERVIT when the upper-cased
\* name holds an ENERVIT keyword, otherwise ROYALBAY when it holds "ROYAL BAY"
\* or "ROYALBAY", otherwise VITAR
C19_BrandOfName ==
    \A i \in 1..Len(itemsData) :
        LET item == itemsData[i]
            upper == toUpperCase(NameOf(item))
            brand == classifyBrand(item)
        IN  /\ brand \in {"ENERVIT", "ROYALBAY", "VITAR"}
            /\ brand = "ENERVIT" <=> HasEnervitKeyword(upper)
            /\ brand = "ROYALBAY" <=>
                  ~HasEnervitKeyword(upper) /\ HasRoyalbayKeyword(upper)
            /\ NameOf(item) = P_ENERVIT_ISOTONIC => brand = "ENERVIT"
            /\ NameOf(item) = P_ROYAL_BAY_COMPRESSION => brand = "ROYALBAY"
            /\ NameOf(item) = P_GENERIC_SHAKER => brand = "VITAR"
            /\ NameOf(item) = P_ROYALBAY_ENERVIT => brand = "ENERVIT"
            /\ NameOf(item) = << >> => brand = "VITAR"

\* after a change of the VAT mode the brand table shows the item whose name
\* holds a keyword of both brands under ENERVIT
C19_Witness ==
    /\ selects["vatFilter"] = "without_vat"
    /\ Len(itemsData) = 1
    /\ NameOf(itemsData[1]) = P_ROYALBAY_ENERVIT
    /\ dom["brandTable"].value.rows[M_2025_03].ENERVIT = 100
    /\ dom["brandTable"].value.rows[M_2025_03].ROYALBAY = 0
----------------------------------------------------------------------------
(* Properties of the stock view.                                           *)

MaxStockDays == 125

\* the days_remaining values of the check: below -1, -1, and past every limit
StockDays == -3..MaxStockDays

StatusAtCutPoints(d) ==
    IF d = -1 THEN "no_sales"
    ELSE IF d \in 30..59 THEN "low"
    ELSE IF d \in 60..120 THEN "ok"
    ELSE IF d >= 121 THEN "high"
    ELSE "critical"

LabelOfStatus(status) ==
    CASE status = "no_sales" -> "Bez predaja"
      [] status = "critical" -> "Kriticke"
      [] status = "low" -> "Nizke"
      [] status = "ok" -> "OK"
      [] status = "high" -> "Vysoke"

\* C15: getStockStatus gives every days_remaining value the one status of the
\* cut points -1 no_sales, below 30 critical, below 60 low, up to 120 ok,
\* above 120 high (29 critical, 30 low, 59 low, 60 ok, 120 ok, 121 high), and
\* getStockStatusText gives the label of that status; the rows of the stock
\* table and the counts of the stock cards show these statuses.
C15_StockStatusCutPoints ==
    /\ \A d \in StockDays :
          /\ getStockStatus(d) = StatusAtCutPoints(d)
          /\ getStockStatusText(d) = LabelOfStatus(StatusAtCutPoints(d))
    /\ getStockStatus(-1) = "no_sales"
    /\ getStockStatus(29) = "critical" /\ getStockStatus(30) = "low"
    /\ getStockStatus(59) = "low" /\ getStockStatus(60) = "ok"
    /\ getStockStatus(120) = "ok" /\ getStockStatus(121) = "high"
    /\ dom["stockTable"].written =>
          \A i \in DOMAIN dom["stockTable"].value :
              LET row == dom["stockTable"].value[i]
              IN  /\ row.status = StatusAtCutPoints(row.days_remaining)
                  /\ row.statusText = LabelOfStatus(row.status)
    /\ dom["stockSummary"].written =>
          \A st \in StockStatuses :
              dom["stockSummary"].value[st] =
                  Cardinality({i \in 1..Len(stockData) :
                                  /\ stockData[i].count > 0
                                  /\ StatusAtCutPoints(stockData[i].days_remaining) = st})

\* the stock view filtered to 'low' shows the item of 30 days and not that of 29
C15_Witness ==
    /\ currentView = "stock"
    /\ selects["stockStatusFilter"] = "low"
    /\ \E i \in 1..Len(stockData) : stockData[i].days_remaining = 29
    /\ dom["stockTable"].written
    /\ Len(dom["stockTable"].value) = 1
    /\ dom["stockTable"].value[1].days_remaining = 30
    /\ dom["stockTable"].value[1].status = "low"
    /\ dom["stockSummary"].value["critical"] = 1
----------------------------------------------------------------------------
(* Properties of the overdue view.                                         *)

MaxOverdueDays == 125

CategoryOfDays(d) ==
    IF d = 0 THEN "ok"
    ELSE IF d \in 1..15 THEN "warning"
    ELSE IF d \in 16..30 THEN "danger"
    ELSE IF d \in 31..90 THEN "danger"
    ELSE "critical"

\* C16: getOverdueCategory gives every days_overdue >= 0 one category: 0 ok,
\* 1..15 warning, 16..30 danger, 31..90 danger, above 90 critical (15 warning,
\* 16 danger, 90 danger, 91 critical); the rows of the overdue table carry the
\* category of their days.
C16_OverdueCategories ==
    /\ \A d \in 0..MaxOverdueDays : getOverdueCategory(d) = CategoryOfDays(d)
    /\ getOverdueCategory(15) = "warning" /\ getOverdueCategory(16) = "danger"
    /\ getOverdueCategory(90) = "danger" /\ getOverdueCategory(91) = "critical"
    /\ dom["overdueTable"].written =>
          \A i \in DOMAIN dom["overdueTable"].value :
              LET row == dom["overdueTable"].value[i]
              IN  /\ row.daysOverdue >= 0
                  /\ row.category = CategoryOfDays(row.daysOverdue)

\* the overdue view, opened after the clock moved, shows an invoice of 16 days
\* as danger next to one of 91 days as critical
C16_Witness ==
    /\ currentView = "overdue"
    /\ now > StartOfClock
    /\ dom["overdueTable"].written
    /\ \E i, j \in DOMAIN dom["overdueTable"].value :
          /\ dom["overdueTable"].value[i].daysOverdue = 91
          /\ dom["overdueTable"].value[i].category = "critical"
          /\ dom["overdueTable"].value[j].daysOverdue = 16
          /\ dom["overdueTable"].value[j].category = "danger"
AllInvoices == invoicesData \o sponsoringData

IsPaid(inv) == Has(inv, "is_paid") /\ inv.is_paid

HasDueDate(inv) == Has(inv, "date_due") /\ IsDateString(inv.date_due)

\* the days from the due date to the instant t, rounded up to whole days, when
\* the instant is after the due date
DaysPastDue(inv, t) ==
    LET diff == t - DateTicks(inv.date_due)
    IN  IF diff > 0
        THEN CHOOSE n \in 1..diff :
                 n * TicksPerDay >= diff /\ (n - 1) * TicksPerDay < diff
        ELSE 0

ExpectedDaysOverdue(inv, t) ==
    IF IsPaid(inv) \/ ~HasDueDate(inv) THEN 0 ELSE DaysPastDue(inv, t)

\* C17: getDaysOverdue is 0 for a paid invoice and for an invoice without a due
\* date, otherwise the days from the due date to today rounded up when today is
\* after the due date and 0 when it is not; it is never negative.  The overdue
\* table shows these days, as they were at a reading of the clock, and has no
\* row for a paid invoice or one without a due date.
C17_DaysOverdue ==
    /\ DaysFromCivil(1970, 1, 1) = 0
    /\ DaysFromCivil(2025, 7, 1) = 20270
    /\ \A i \in 1..Len(AllInvoices) :
          /\ getDaysOverdue(AllInvoices[i], now) = ExpectedDaysOverdue(AllInvoices[i], now)
          /\ getDaysOverdue(AllInvoices[i], now) >= 0
    /\ dom["overdueTable"].written =>
          \E t \in StartOfClock..now :
              \A r \in DOMAIN dom["overdueTable"].value :
                  LET row == dom["overdueTable"].value[r]
                  IN  /\ row.daysOverdue > 0
                      /\ \E i \in 1..Len(AllInvoices) :
                            /\ AllInvoices[i].invoice_number = row.invoice_number
                            /\ ~IsPaid(AllInvoices[i])
                            /\ HasDueDate(AllInvoices[i])
                            /\ row.daysOverdue = DaysPastDue(AllInvoices[i], t)

\* a quarter of a day after the due date the invoice is one day overdue, while
\* the paid invoice of the same store has no row
C17_Witness ==
    /\ currentView = "overdue"
    /\ now = StartOfClock + 1
    /\ \E i \in 1..Len(invoicesData) :
          IsPaid(invoicesData[i]) /\ invoicesData[i].invoice_number = 6
    /\ \E i \in 1..Len(invoicesData) :
          /\ invoicesData[i].invoice_number = 4
          /\ getDaysOverdue(invoicesData[i], now) = 1
    /\ dom["overdueTable"].written
    /\ \E r \in DOMAIN dom["overdueTable"].value :
          /\ dom["overdueTable"].value[r].invoice_number = 4
          /\ dom["overdueTable"].value[r].daysOverdue = 1
    /\ \A r \in DOMAIN dom["overdueTable"].value :
          dom["overdueTable"].value[r].invoice_number # 6
----------------------------------------------------------------------------
(* Properties of the monthly summary.                                      *)

RatioNames ==
    {"planCZPercent", "planSKPercent", "momChangeCZ", "momChangeSK", "paidPercent",
     "brandENERVIT", "brandROYALBAY", "brandVITAR", "eshopPercent", "b2bPercent",
     "countryCZ", "countrySK", "invoicePlanCZPercent", "invoicePlanSKPercent",
     "orderToInvoiceRatioCZ", "orderToInvoiceRatioSK", "top5Concentration"}

CountryShares == {"countryCZ", "countrySK"}

IsFiniteNumber(r) == ~IsNaN(r) /\ ~IsInfinity(r)

\* C20: no ratio of the report is the result of a division by zero: the plan
\* percents, the month-over-month changes, the brand, channel and country
\* shares, the payment rate and the customer concentration are numbers, never
\* NaN or an infinity, also for a selected month without orders or invoices.
C20_NoDivisionByZero ==
    dom["summaryContent"].written =>
        \A name \in RatioNames :
            IsFiniteNumber(dom["summaryContent"].value.ratios[name])

\* the ratios that the code guards are numbers in every report
C20_GuardedRatiosAreNumbers ==
    dom["summaryContent"].written =>
        \A name \in RatioNames \ CountryShares :
            IsFiniteNumber(dom["summaryContent"].value.ratios[name])

\* a report of a month with orders, whose country shares are numbers
C20_ReportOfMonthWithOrders ==
    /\ currentView = "summary"
    /\ selects["summaryMonthFilter"] = M_2025_03
    /\ dom["summaryContent"].value.totalCZK > 0
    /\ dom["summaryContent"].value.totalEUR > 0
    /\ \A name \in RatioNames :
          IsFiniteNumber(dom["summaryContent"].value.ratios[name])
----------------------------------------------------------------------------
(* The record stores.                                                      *)

\* C21: no UI event changes the contents or the element order of a record
\* store: every step of a filter change, a view switch, a tab click or an
\* overdue, stock or summary filter change leaves the seven stores as they
\* were loaded; the sorts of the overdue and the stock view act on copies.
C21_StoresReadOnly == [][stores' = stores]_vars

\* both sorted tables are rendered in another order than their stores hold,
\* after a tab click
C21_Witness ==
    /\ dom["stockTable"].written
    /\ Len(dom["stockTable"].value) = 2
    /\ dom["stockTable"].value[1].code = 2
    /\ stockData[1].code = 7
    /\ dom["overdueTable"].written
    /\ Len(dom["overdueTable"].value) = 3
    /\ dom["overdueTable"].value[1].invoice_number = 2
    /\ invoicesData[1].invoice_number = 1
    /\ activeTab # FirstTab
    /\ selects["vatFilter"] = "without_vat"
----------------------------------------------------------------------------
(* The VAT mode.                                                           *)

\* the other value of the VAT select
OtherVatMode == IF selects["vatFilter"] = "with_vat" THEN "without_vat" ELSE "with_vat"

\* the record counts that updateDisplay shows for the orders of a VAT mode
RecordCounts(sel) ==
    LET orders == getFilteredOrders(getCurrentData(currentView), sel).value
        months == aggregateByMonth(orders, sel).value
        customers == CustomersObject(orders, sel)
    IN  [totalOrders |-> calculateSummary(orders, sel).totalOrders,
         listed |-> Len(limitedOrders(orders)),
         monthly |-> [m \in DOMAIN months |->
                        [b \in CzkBuckets \cup EurBuckets |-> months[m][b].count]],
         monthTotals |-> [m \in DOMAIN months |-> months[m].totalCount],
         customers |-> {<<c.name, c.count>> : c \in RangeOf(ObjectValues(customers))}]

\* C22: getPriceField returns the VAT-inclusive field (total_czk, total_eur)
\* in mode with_vat and when the page has no VAT select, the VAT-exclusive
\* field (total_czk_bez_dph, total_eur_bez_dph) in mode without_vat, and 0
\* for a field the record lacks, never a value derived from the other field;
\* the other VAT mode selects the same records, in the same order, and gives
\* the same record counts.
C22_VatMode ==
    LET other == [selects EXCEPT !["vatFilter"] = OtherVatMode]
        noSelect == [id \in DOMAIN selects \ {"vatFilter"} |-> selects[id]]
        inclusive == [CZK |-> "total_czk", EUR |-> "total_eur"]
        exclusive == [CZK |-> "total_czk_bez_dph", EUR |-> "total_eur_bez_dph"]
        read(o, f) == IF f \in DOMAIN o THEN o[f] ELSE 0
    IN  /\ \A i \in 1..Len(ordersData) : \A c \in {"CZK", "EUR"} :
              /\ getPriceField(ordersData[i], c, selects) =
                    IF selects["vatFilter"] = "without_vat"
                    THEN read(ordersData[i], exclusive[c])
                    ELSE read(ordersData[i], inclusive[c])
              /\ getPriceField(ordersData[i], c, noSelect) =
                    read(ordersData[i], inclusive[c])
        /\ getFilteredOrders(ordersData, other) = getFilteredOrders(ordersData, selects)
        /\ getFilteredItems(itemsData, other) = getFilteredItems(itemsData, selects)
        /\ RecordCounts(other) = RecordCounts(selects)

\* without VAT the cards show 90 CZK for two orders: the order of 121 with VAT
\* counts 90, the order that has no amount without VAT counts 0
C22_Witness ==
    /\ selects["vatFilter"] = "without_vat"
    /\ Len(ordersData) = 2
    /\ \E i \in 1..2 : ~Has(ordersData[i], "total_czk_bez_dph")
    /\ dom["summaryCards"].written
    /\ dom["summaryCards"].value.summary.totalCZK = 90
    /\ dom["summaryCards"].value.summary.totalOrders = 2
----------------------------------------------------------------------------
(* The executive summary.                                                  *)

\* C23: for every input generateExecutiveSummary emits exactly one fragment of
\* the overall assessment, the first that matches of: CZ and SK fulfillment
\* both >= 100 (excellent); CZ >= 100, SK < 100 and their mean >= 95 (CZ
\* compensated SK); CZ >= 90 or SK >= 90 (partial); otherwise below
\* expectation.  It emits exactly one fragment of the channel mix, the first
\* that matches of: B2B share > 60; e-shop share > 60; otherwise balanced.
\* Rendering the same month from the same stores again gives the same report.
C23_ExecutiveSummaryTree ==
    dom["summaryContent"].written =>
        LET report == dom["summaryContent"].value
            cz == report.ratios.planCZPercent
            sk == report.ratios.planSKPercent
            b2b == report.ratios.b2bPercent
            eshop == report.ratios.eshopPercent
            excellent == RatioAtLeast(cz, 100) /\ RatioAtLeast(sk, 100)
            compensated == /\ RatioAtLeast(cz, 100)
                           /\ ~RatioAtLeast(sk, 100)
                           /\ MeanAtLeast(cz, sk, 95)
            partial == RatioAtLeast(cz, 90) \/ RatioAtLeast(sk, 90)
        IN  /\ Len(report.executive.assessment) = 1
            /\ report.executive.assessment[1] =
                  CASE excellent -> "excellent"
                    [] ~excellent /\ compensated -> "compensated"
                    [] ~excellent /\ ~compensated /\ partial -> "partial"
                    [] OTHER -> "below"
            /\ Len(report.executive.channelMix) = 1
            /\ report.executive.channelMix[1] =
                  CASE RatioAbove(b2b, 60) -> "b2bDominant"
                    [] ~RatioAbove(b2b, 60) /\ RatioAbove(eshop, 60) -> "eshopDominant"
                    [] OTHER -> "balanced"
            /\ report = generateMonthlySummary(ordersData, invoicesData, itemsData,
                                               report.selectedMonth)

\* the report of March 2025 for a CZ order that meets the plan and an SK order
\* of 90.008 % of the plan: mean 95.004 %, all but 10.8 % of it by e-shop
C23_Witness ==
    /\ currentView = "summary"
    /\ dom["summaryContent"].written
    /\ dom["summaryContent"].value.selectedMonth = M_2025_03
    /\ dom["summaryContent"].value.totalCZK = 2167710
    /\ dom["summaryContent"].value.totalEUR = 10494
    /\ dom["summaryContent"].value.executive.assessment = <<"compensated">>
    /\ dom["summaryContent"].value.executive.channelMix = <<"eshopDominant">>
----------------------------------------------------------------------------
(* The view buttons.                                                       *)

\* an element is visible unless its style.display is none
Visible(id) == style[id] # "none"

NormalViews == {"orders", "invoices", "sponsoring"}

\* the sections shown are those of the current view
SectionsMatchView ==
    /\ Visible("overdueSection") <=> currentView = "overdue"
    /\ Visible("stockSection") <=> currentView = "stock"
    /\ Visible("summarySection") <=> currentView = "summary"
    /\ Visible("summaryCards") <=> currentView \in NormalViews
    /\ Visible("tabs") <=> currentView \in NormalViews

\* C24: currentView is the view of the last click that named another view,
\* which is the button that holds the class active; a click on the button of
\* the current view changes no state and renders nothing, so a step that
\* keeps currentView and is not the passing of time is no step at all; after
\* each switch the overdue, stock and summary sections are visible exactly in
\* their view, the summary cards and the tab bar exactly in the orders,
\* invoices and sponsoring views.
C24_ViewSwitch ==
    [][/\ currentView' = activeViewBtn'
       /\ (currentView' = currentView /\ now' = now) => UNCHANGED vars
       /\ currentView' # currentView => SectionsMatchView']_vars

\* the invoices view after the overdue table was rendered a day earlier and
\* the stock and summary views were visited
C24_Witness ==
    /\ currentView = "invoices"
    /\ activeViewBtn = "invoices"
    /\ SectionsMatchView
    /\ style["summaryCards"] = "grid"
    /\ style["tabs"] = "flex"
    /\ style["overdueSection"] = "none"
    /\ dom["overdueTable"].written
    /\ dom["stockTable"].written
    /\ dom["summaryContent"].written
    /\ now > StartOfClock
----------------------------------------------------------------------------
(* The tab-content panels.                                                 *)

SpecialViews == {"overdue", "stock", "summary"}

\* the elements that updateDisplay writes
SalesElementIds ==
    ElementIds \ {"overdueSummary", "overdueTable", "overdueCount", "stockSummary",
                  "stockTable", "stockCount", "summaryContent"}

\* C25: entering the overdue, stock or summary view sets display none on the
\* tab-content panels, and no later event of any kind resets it; a switch
\* back to orders, invoices or sponsoring shows the tab bar and renders the
\* tables of that view again but leaves the panels hidden; a tab click moves
\* the class active and changes nothing else.
C25_TabContentsStayHidden ==
    [][/\ (currentView' # currentView /\ currentView' \in SpecialViews)
            => style'["tabContents"] = "none"
       /\ style["tabContents"] = "none" => style'["tabContents"] = "none"
       /\ (currentView' # currentView /\ currentView' \in NormalViews)
            => /\ style'["tabs"] = "flex"
               /\ style'["tabContents"] = style["tabContents"]
               /\ LET shown == updateDisplay(dom, getCurrentData(currentView'),
                                              getCurrentItems(currentView'), selects')
                  IN  \A id \in SalesElementIds : dom'[id] = shown[id]
       /\ activeTab' # activeTab
            => UNCHANGED <<stores, currentView, selects, options, style, dom,
                           activeViewBtn, now>>]_vars

\* back in the sponsoring view after the overdue view, another tab clicked:
\* the tab bar and the tables of sponsoring, the panels still hidden
C25_Witness ==
    /\ currentView = "sponsoring"
    /\ dom["overdueTable"].written
    /\ style["tabs"] = "flex"
    /\ style["summaryCards"] = "grid"
    /\ style["tabContents"] = "none"
    /\ activeTab # FirstTab
    /\ dom["summaryCards"].written
    /\ dom["summaryCards"].value.summary.totalCZK = 484
----------------------------------------------------------------------------
(* The sources of updateDisplay.                                           *)

\* C26: the three plan-vs-actual tables and the brand table show what they
\* show with every criterion at 'all' and the same VAT mode, that is, they are
\* computed from the whole store of the view whatever the month, market,
\* channel, salesperson, payment and city selects say; the summary cards, the
\* channel tables, the order list and the top-10 tables are computed from the
\* filtered orders and items.
C26_WholeStoreTables ==
    LET unfiltered == [DefaultSelects EXCEPT !["vatFilter"] = selects["vatFilter"]]
        whole == updateDisplay(dom, getCurrentData(currentView),
                               getCurrentItems(currentView), unfiltered)
        orders == getFilteredOrders(getCurrentData(currentView), selects).value
        items == getFilteredItems(getCurrentItems(currentView), selects).value
        monthlyData == aggregateByMonth(orders, selects).value
        b2bData == aggregateB2BBySalesperson(orders, selects).value
    IN  /\ \A id \in {"planCZTable", "planSKTable", "planB2BTable", "brandTable"} :
              dom[id] = whole[id]
        /\ dom["summaryCards"] = Rendered(SummaryCards(orders, selects))
        /\ dom["czTable"] = Rendered(CZTable(monthlyData))
        /\ dom["skTable"] = Rendered(SKTable(monthlyData))
        /\ dom["monthlyTable"] = Rendered(monthlyData)
        /\ dom["b2bTable"] = Rendered(B2BTable(b2bData))
        /\ dom["ordersTable"] = Rendered(limitedOrders(orders))
        /\ dom["top10CustomersTable"] = Rendered(Top10Customers(orders, selects))
        /\ dom["top10ProductsTable"] = Rendered(Top10Products(items, selects))

\* market SK selected for a store with an order in CZK: no order in the list
\* is in CZK, the plan table of CZ still shows the order
C26_Witness ==
    /\ selects["marketFilter"] = "SK"
    /\ selects["vatFilter"] = "without_vat"
    /\ \E i \in 1..Len(ordersData) : ~IsEUR(ordersData[i])
    /\ dom["ordersTable"].written
    /\ \A i \in 1..Len(dom["ordersTable"].value) : IsEUR(dom["ordersTable"].value[i])
    /\ dom["planCZTable"].written
    /\ dom["planCZTable"] #
          Rendered(PlanCZTable(aggregateByMonth(FilteredOrders.value, selects).value))
----------------------------------------------------------------------------
(* The overdue buckets.                                                    *)

\* the days of a bucket, as whole numbers
BucketDays(bucket) ==
    CASE bucket = "0-15" -> 1..15
      [] bucket = "15-30" -> 16..30
      [] bucket = "30-90" -> 31..90
      [] bucket = "90+" -> {d \in Nat : d > 90}
      [] OTHER -> {d \in Nat : d > 0}

\* how often a record occurs in a sequence
Occurrences(s, x) == Cardinality({i \in 1..Len(s) : s[i] = x})

\* C27: getOverdueInvoices returns exactly the invoices of invoicesData and
\* sponsoringData that are unpaid, overdue by more than 0 days and in the
\* selected bucket (0-15: 1..15, 15-30: 16..30, 30-90: 31..90, 90+: above 90,
\* all: any), each as often as the stores hold it, ordered by days overdue
\* non-increasing; every overdue invoice is in exactly one of the four
\* buckets; the counts of updateOverdueSummary are the sizes of the buckets
\* and add up to the number returned for 'all', whatever bucket is selected.
C27_OverdueBuckets ==
    LET all == invoicesData \o sponsoringData
        days(inv) == getDaysOverdue(inv, now)
        of(bucket) == getOverdueInvoices(invoicesData, sponsoringData,
                                         [selects EXCEPT !["overdueFilter"] = bucket], now)
        expected(bucket) ==
            {i \in 1..Len(all) : /\ ~IsPaid(all[i])
                                 /\ days(all[i]) > 0
                                 /\ days(all[i]) \in BucketDays(bucket)}
        returned == of(selects["overdueFilter"])
        summary == OverdueSummary(invoicesData, sponsoringData, selects, now)
    IN  /\ Len(returned) = Cardinality(expected(selects["overdueFilter"]))
        /\ \A i \in 1..Len(all) :
              Occurrences(returned, all[i]) =
                 Cardinality({j \in expected(selects["overdueFilter"]) : all[j] = all[i]})
        /\ \A i \in 1..Len(returned) : \A j \in i..Len(returned) :
              days(returned[i]) >= days(returned[j])
        /\ \A i \in 1..Len(of("all")) :
              Cardinality({b \in OverdueBuckets :
                              Occurrences(of(b), of("all")[i]) > 0}) = 1
        /\ \A b \in OverdueBuckets : summary[b].count = Len(of(b))
        /\ SumFn([b \in OverdueBuckets |-> summary[b].count], OverdueBuckets)
              = Len(of("all"))

\* the overdue view with bucket 15-30 selected: one row of 30 days, out of
\* three overdue invoices, one in each of the first three cards
C27_Witness ==
    /\ currentView = "overdue"
    /\ selects["overdueFilter"] = "15-30"
    /\ dom["overdueTable"].written
    /\ Len(dom["overdueTable"].value) = 1
    /\ dom["overdueTable"].value[1].daysOverdue = 30
    /\ dom["overdueSummary"].written
    /\ dom["overdueSummary"].value["0-15"].count = 1
    /\ dom["overdueSummary"].value["15-30"].count = 1
    /\ dom["overdueSummary"].value["30-90"].count = 1
    /\ dom["overdueSummary"].value["90+"].count = 0
----------------------------------------------------------------------------
(* The total of a month of aggregateB2BBySalesperson.                      *)

\* C28: in every month of aggregateB2BBySalesperson, total is the sum of the
\* CZK amounts of the B2B records of that month that are not in EUR, and is
\* the sum of the salesperson keys of the month, for every salesperson value,
\* a value equal to the name of the total key included.
C28_TotalIsSumOfKeys ==
    LET R == FilteredOrders.value
        counted == IndicesOf(R, IsB2BCZ)
        months == B2BData.value
        amounts == [i \in 1..Len(R) |-> AmountIn(R[i], "CZK")]
    IN  \A m \in DOMAIN months :
            LET keys == DOMAIN months[m] \ {"total"}
            IN  /\ months[m]["total"] =
                      SumFn(amounts, {i \in counted : MonthOf(R[i]) = m})
                /\ months[m]["total"] = SumFn([k \in keys |-> months[m][k]], keys)
----------------------------------------------------------------------------
(* The session.                                                            *)

\* the session store holds a parseable session of at most 8 hours
ValidSession(store, t) ==
    /\ store.stored
    /\ store.text.json
    /\ t - store.text.value.timestamp <= 8 * TicksPerHour

\* C29: isAuthenticated returns true exactly when the session store holds a
\* parseable session whose timestamp is at most 8 hours before the current
\* time; the check of an older session removes it, and a store without a
\* session gives false and the user null; the store gets a session again
\* only by a successful login, and after logout isAuthenticated is false.
C29_SessionExpiry ==
    /\ [](LET check == isAuthenticated(session, now)
          IN  /\ check.result <=> ValidSession(session, now)
              /\ (session.stored /\ session.text.json /\ ~ValidSession(session, now))
                    => check.store = NoSession
              /\ (check.result \/ ~session.stored) => check.store = session
              /\ session = NoSession
                    => ~check.result /\ getCurrentUser(session) = NoUser)
    /\ [][/\ (session = NoSession /\ session' # NoSession)
               => /\ location = "login.html"
                  /\ location' = "index.html"
                  /\ isAuthenticated(session', now').result
          /\ (location = "index.html" /\ location' = "login.html")
               => ~isAuthenticated(session', now').result]_vars

\* the dashboard nine hours after the login, the session removed by a check
C29_Witness ==
    /\ location = "index.html"
    /\ session = NoSession
    /\ now >= StartOfClock + 9 * TicksPerHour
    /\ ~isAuthenticated(session, now).result
    /\ getCurrentUser(session) = NoUser

----------------------------------------------------------------------------
(* The login.                                                              *)

\* the user name that a typed name stands for
ExpectedUser ==
    <<"a","d","m","i","n">> :> <<"a","d","m","i","n">> @@
    <<" ","A","d","m","i","n"," ">> :> <<"a","d","m","i","n">> @@
    <<"A","D","M","I","N">> :> <<"a","d","m","i","n">> @@
    <<"K","A","R","O","L","I","N","A",".","C","A","L","D","A">> :> <<"k","a","r","o","l","i","n","a",".","c","a","l","d","a">> @@
    <<"n","o","b","o","d","y">> :> <<"n","o","b","o","d","y">> @@
    << >> :> << >>

=============================================================================
